---- MODULE Spec2Model ----
(***************************************************************************)
(* State-machine model of the simulation core of "Magnet fury"             *)
(* (tynberry/info_project): the main loop, the Running tick (game_update)  *)
(* pass by pass, the hecs world, the CommandBuffer and the event world.    *)
(*                                                                         *)
(* Numbers.  f32 seconds are integers counted in 1/SEC s, hit points are   *)
(* integers counted in 1/HPU hp, positions are whole pixels and velocities *)
(* whole pixels per second.  Divisions truncate toward zero (Quot).        *)
(***************************************************************************)
EXTENDS Integers, Naturals, Sequences, FiniteSets, TLC

\* ------------------------------------------------------------------------
\* bounds of the model
\* ------------------------------------------------------------------------
\* number of main-loop iterations explored from an initial world
MaxFrames == 2
\* number of entities, besides the ones init_game creates, in an initial world
MaxOthers == 2

\* ------------------------------------------------------------------------
\* units
\* ------------------------------------------------------------------------
\* time units per second (dt: f32 is in seconds)
SEC == 100
\* hit point units per 1.0 hp
HPU == 20
\* granularity of the frame times explored: half a second
DT_STEP == SEC \div 2
\* mass units per 1.0 mass (an orb weighs 0.25 * amount)
MASSU == 4
\* units of a ChargeReceiver multiplier per 1.0
MULTU == 10

\* the frame times explored: get_frame_time() of a display that keeps a
\* steady rate of 2 or of 1 frame per second
Dts == { DT_STEP, 2 * DT_STEP }

\* ------------------------------------------------------------------------
\* arithmetic helpers
\* ------------------------------------------------------------------------
\* division truncating toward zero, as an f32-to-grid rounding
Quot(a, b) == IF a >= 0 THEN a \div b ELSE -((-a) \div b)

\* the digit d of a square root: the largest of 0..last with
\* (base + d * step)^2 <= n
SqrtDigit(n, base, step, last) ==
    CHOOSE d \in 0..last :
        /\ (base + d * step) * (base + d * step) <= n
        /\ d = last \/ (base + (d + 1) * step) * (base + (d + 1) * step) > n

\* floor of the square root (f32::sqrt on the pixel grid)
Isqrt(n) ==
    LET a == 1024 * SqrtDigit(n, 0, 1024, 44)
        b == a + 32 * SqrtDigit(n, a, 32, 31)
    IN  b + SqrtDigit(n, b, 1, 31)

\* Vec2 helpers; a Vec2 is a pair <<x, y>>
VAdd(a, b) == << a[1] + b[1], a[2] + b[2] >>
VSub(a, b) == << a[1] - b[1], a[2] - b[2] >>
VLenSq(a) == a[1] * a[1] + a[2] * a[2]
VLen(a) == Isqrt(VLenSq(a))
VDot(a, b) == a[1] * b[1] + a[2] * b[2]
VZero == << 0, 0 >>

\* v.normalize_or_zero() * k, for a scalar k
VScaleTo(v, k) ==
    LET len == VLen(v)
    IN  IF len = 0 THEN VZero
        ELSE << Quot(v[1] * k, len), Quot(v[2] * k, len) >>

\* v * k / d on the grid
VMulDiv(v, k, d) == << Quot(v[1] * k, d), Quot(v[2] * k, d) >>

\* v * dt for a velocity in px/s and dt in time units
VTimesDt(v, d) == << Quot(v[1] * d, SEC), Quot(v[2] * d, SEC) >>

\* sum of a sequence of Vec2
RECURSIVE VSum(_)
VSum(vs) ==
    IF Len(vs) = 0 THEN VZero
    ELSE IF Len(vs) = 1 THEN vs[1]
    ELSE LET m == Len(vs) \div 2
         IN  VAdd(VSum(SubSeq(vs, 1, m)), VSum(SubSeq(vs, m + 1, Len(vs))))

\* sum of a sequence of integers
RECURSIVE SumSeq(_)
SumSeq(xs) ==
    IF Len(xs) = 0 THEN 0
    ELSE IF Len(xs) = 1 THEN xs[1]
    ELSE LET m == Len(xs) \div 2
         IN  SumSeq(SubSeq(xs, 1, m)) + SumSeq(SubSeq(xs, m + 1, Len(xs)))

\* concatenation of a sequence of sequences
RECURSIVE Flatten(_)
Flatten(ss) ==
    IF Len(ss) = 0 THEN << >>
    ELSE IF Len(ss) = 1 THEN ss[1]
    ELSE LET m == Len(ss) \div 2
         IN  Flatten(SubSeq(ss, 1, m)) \o Flatten(SubSeq(ss, m + 1, Len(ss)))

\* base.powf(dt) in thousandths, for base in thousandths and dt a multiple
\* of half a second: the half-second root multiplied dt / DT_STEP times
RECURSIVE PowSteps(_, _)
PowSteps(root, k) == IF k <= 0 THEN 1000 ELSE (root * PowSteps(root, k - 1)) \div 1000

Powf(base, d) == PowSteps(Isqrt(base * 1000), d \div DT_STEP)

\* minimum / maximum of two integers
Min(a, b) == IF a < b THEN a ELSE b
Max(a, b) == IF a > b THEN a ELSE b

\* the ids of a finite set of naturals in increasing order
SortedSeq(S) ==
    [ i \in 1..Cardinality(S) |->
        CHOOSE x \in S : Cardinality({ y \in S : y < x }) = i - 1 ]

\* ------------------------------------------------------------------------
\* main.rs
\* ------------------------------------------------------------------------
SPACE_WIDTH == 1280
SPACE_HEIGHT == 720

\* ------------------------------------------------------------------------
\* basic.rs : Team
\* ------------------------------------------------------------------------
Teams == { "Neutral", "Player", "Enemy" }

Team_can_hurt_same(self, other) == TRUE
Team_can_hurt(self, other) == self # other

\* ------------------------------------------------------------------------
\* components.  An entity is a record: comps is the set of component types
\* it carries, the other fields hold the data of those components.
\* ------------------------------------------------------------------------
NoEntity == -1

Blank ==
    [ comps |-> {}, pos |-> VZero, rot |-> << 1, 0 >>, vel |-> VZero,
      mass |-> 0, team |-> "Neutral", hit_r |-> 0, hurt_r |-> 0,
      hp |-> 0, max_hp |-> 0, dmg |-> 0, kb |-> 0,
      cs_force |-> 0, cs_full |-> 0, cs_no |-> 0, cr_mult |-> 0,
      cd_timer |-> 0, max_vel |-> 0, xp |-> 0, follow_mult |-> 0,
      cooldown |-> 0, outline |-> NoEntity, charge |-> 0, time |-> 0,
      damp_mul |-> 0, damp_flat |-> 0, mine_timer |-> 0 ]

\* ------------------------------------------------------------------------
\* player.rs : constants, Player::new, new_entity
\* ------------------------------------------------------------------------
PLAYER_ACCEL == 600
PLAYER_MASS == 10 * MASSU
PLAYER_CHARGE_FORCE == 200
PLAYER_CHARGE_FULL_RADIUS == 150
PLAYER_CHARGE_RADIUS == 300
PLAYER_MAX_BASE_HP == 10 * HPU
PLAYER_BASE_HP_REGEN == (3 * HPU) \div 10
PLAYER_FIRE_COOLDOWN == (15 * SEC) \div 100
PLAYER_INVUL_COOLDOWN == 1 * SEC

Player_new == [ fire_timer |-> 0, invul_timer |-> 0, polarity |-> 1, xp |-> 0 ]

new_entity ==
    [ Blank EXCEPT
        !.comps = { "Player", "Position", "PhysicsMotion", "Rotation", "Health",
                    "HitBox", "Team", "Wrapped", "Sprite", "ChargeReceiver",
                    "ChargeSender" },
        !.pos = << SPACE_WIDTH \div 2, SPACE_HEIGHT \div 2 >>,
        !.vel = VZero, !.mass = PLAYER_MASS,
        !.hp = PLAYER_MAX_BASE_HP, !.max_hp = PLAYER_MAX_BASE_HP,
        !.hit_r = 7, !.team = "Player",
        !.cr_mult = (2 * MULTU) \div 10,
        !.cs_force = PLAYER_CHARGE_FORCE,
        !.cs_full = PLAYER_CHARGE_FULL_RADIUS,
        !.cs_no = PLAYER_CHARGE_RADIUS ]

\* ------------------------------------------------------------------------
\* projectile.rs : create_projectile
\* ------------------------------------------------------------------------
PROJ_SMALL_MASS == 1 * MASSU
PROJ_SMALL_SIZE == 2
PROJ_SMALL_CHARGE == 20
PROJ_SMALL_CHARGE_MULT == (4 * MULTU) \div 10
PROJ_MED_MASS == 1 * MASSU
PROJ_MED_SIZE == 8
PROJ_MED_CHARGE == 40
PROJ_MED_CHARGE_MULT == (7 * MULTU) \div 10

Signum(x) == IF x > 0 THEN 1 ELSE IF x < 0 THEN -1 ELSE 0

\* proj_type is a record [size |-> "Small" | "Medium", charge |-> -1 | 0 | 1]
create_projectile(pos, vel, dmg, team, proj_type) ==
    LET small == proj_type.size = "Small"
        charge == proj_type.charge * (IF small THEN PROJ_SMALL_CHARGE ELSE PROJ_MED_CHARGE)
        charge_mult == IF small THEN PROJ_SMALL_CHARGE_MULT ELSE PROJ_MED_CHARGE_MULT
    IN  [ Blank EXCEPT
            !.comps = { "Projectile", "Position", "Team", "HurtBox", "DamageDealer",
                        "Sprite", "ChargeReceiver", "ChargeDisable", "PhysicsMotion",
                        "MaxVelocity" },
            !.pos = pos, !.team = team,
            !.hurt_r = IF small THEN PROJ_SMALL_SIZE ELSE PROJ_MED_SIZE,
            !.dmg = dmg,
            !.cr_mult = charge_mult * Signum(charge),
            !.cd_timer = (2 * SEC) \div 10,
            !.vel = vel,
            !.mass = IF small THEN PROJ_SMALL_MASS ELSE PROJ_MED_MASS,
            !.max_vel = VLen(vel) * 2 ]

\* ------------------------------------------------------------------------
\* xp.rs : create_orb
\* ------------------------------------------------------------------------
COLLECT_RADIUS == 10
ATTRACTION_RADIUS == 300
ATTRACTION_SPEED == 100
ATTRACTION_MULT_PER_SEC == (8 * 1000) \div 10

\* an orb whose mass is a whole number of quarters of its amount
create_orb_whole_mass(pos, vel, amount) ==
    [ Blank EXCEPT
        !.comps = { "Position", "PhysicsMotion", "XpOrb", "HurtBox", "Circle",
                    "Team", "Wrapped" },
        !.pos = pos, !.vel = vel,
        !.mass = MASSU * (amount \div 4),
        !.xp = amount, !.follow_mult = 0,
        !.hurt_r = COLLECT_RADIUS, !.team = "Player" ]

\* create_orb (xp.rs 57-84): mass 0.25 * amount
create_orb(pos, vel, amount) ==
    [ Blank EXCEPT
        !.comps = { "Position", "PhysicsMotion", "XpOrb", "HurtBox", "Circle",
                    "Team", "Wrapped" },
        !.pos = pos, !.vel = vel,
        !.mass = (25 * MASSU * amount) \div 100,
        !.xp = amount, !.follow_mult = 0,
        !.hurt_r = COLLECT_RADIUS, !.team = "Player" ]

\* ------------------------------------------------------------------------
\* enemy/asteroid.rs : entity creation
\* ------------------------------------------------------------------------
ASTEROID_HEALTH == 1 * HPU
ASTEROID_SPEED == 50
ASTEROID_MASS == 18 * MASSU
ASTEROID_SIZE == 50
ASTEROID_DMG == 2 * HPU
ASTEROID_FORCE == 750
ASTEROID_FORCE_F_RADIUS == 200
ASTEROID_FORCE_RADIUS == 350
ASTEROID_KNOCKBACK == 500
ASTEROID_XP == 10
BIG_ASTEROID_HEALTH == 2 * HPU
BIG_ASTEROID_SPEED == 45
BIG_ASTEROID_MASS == 30 * MASSU
BIG_ASTEROID_SIZE == 200
BIG_ASTEROID_DMG == 3 * HPU
BIG_ASTEROID_FORCE == 950
BIG_ASTEROID_FORCE_F_RADIUS == 250
BIG_ASTEROID_FORCE_RADIUS == 400
BIG_ASTEROID_KNOCKBACK == 700
BIG_ASTEROID_XP == 20
BIG_ASTEROID_FOLLOW == 20

\* dir is given in thousandths (<<1000, 0>> is the unit vector +x)
create_asteroid(pos, dir) ==
    [ Blank EXCEPT
        !.comps = { "Enemy", "Asteroid", "Position", "LinearMotion", "Sprite",
                    "HitBox", "HurtBox", "Health", "DamageDealer", "Team",
                    "DeleteOnWarp", "KnockbackDealer", "BurstXpOnDeath" },
        !.pos = pos, !.vel = VMulDiv(dir, ASTEROID_SPEED, 1000),
        !.hit_r = ASTEROID_SIZE \div 2 - 8, !.hurt_r = ASTEROID_SIZE \div 2 - 8,
        !.max_hp = ASTEROID_HEALTH, !.hp = ASTEROID_HEALTH,
        !.dmg = ASTEROID_DMG, !.team = "Enemy",
        !.kb = ASTEROID_KNOCKBACK, !.xp = ASTEROID_XP ]

create_charged_asteroid(pos, dir, charge) ==
    [ Blank EXCEPT
        !.comps = { "Enemy", "Asteroid", "Position", "Rotation", "LinearTorgue",
                    "PhysicsMotion", "Sprite", "HitBox", "HurtBox", "Health",
                    "DamageDealer", "Team", "DeleteOnWarp", "ChargeSender",
                    "ChargeReceiver", "KnockbackDealer", "BurstXpOnDeath",
                    "MaxVelocity" },
        !.pos = pos, !.vel = VMulDiv(dir, ASTEROID_SPEED, 1000),
        !.mass = ASTEROID_MASS,
        !.hit_r = ASTEROID_SIZE \div 2, !.hurt_r = ASTEROID_SIZE \div 2,
        !.max_hp = ASTEROID_HEALTH, !.hp = ASTEROID_HEALTH,
        !.dmg = ASTEROID_DMG, !.team = "Enemy",
        !.cs_force = ASTEROID_FORCE * charge,
        !.cs_full = ASTEROID_FORCE_F_RADIUS, !.cs_no = ASTEROID_FORCE_RADIUS,
        !.cr_mult = charge * MULTU,
        !.kb = ASTEROID_KNOCKBACK, !.xp = ASTEROID_XP,
        !.max_vel = ASTEROID_SPEED * 2 ]

create_big_asteroid(pos, dir, charge) ==
    [ Blank EXCEPT
        !.comps = { "Enemy", "BigAsteroid", "Position", "Rotation", "LinearTorgue",
                    "PhysicsMotion", "Sprite", "HitBox", "HurtBox", "Health",
                    "DamageDealer", "Team", "DeleteOnWarp", "ChargeSender",
                    "ChargeReceiver", "KnockbackDealer", "BurstXpOnDeath",
                    "MaxVelocity" },
        !.pos = pos, !.vel = VMulDiv(dir, BIG_ASTEROID_SPEED, 1000),
        !.mass = BIG_ASTEROID_MASS,
        !.hit_r = BIG_ASTEROID_SIZE \div 2 - 15, !.hurt_r = BIG_ASTEROID_SIZE \div 2 - 15,
        !.max_hp = BIG_ASTEROID_HEALTH, !.hp = BIG_ASTEROID_HEALTH,
        !.dmg = BIG_ASTEROID_DMG, !.team = "Enemy",
        !.cs_force = BIG_ASTEROID_FORCE * charge,
        !.cs_full = BIG_ASTEROID_FORCE_F_RADIUS, !.cs_no = BIG_ASTEROID_FORCE_RADIUS,
        !.cr_mult = (2 * MULTU * charge) \div 10,
        !.kb = BIG_ASTEROID_KNOCKBACK, !.xp = BIG_ASTEROID_XP,
        !.max_vel = BIG_ASTEROID_SPEED * 2 ]

\* ------------------------------------------------------------------------
\* enemy/mine.rs : constants, create_mine
\* ------------------------------------------------------------------------
MINE_HEALTH == HPU \div 2
MINE_SPEED == 60
MINE_MASS == 4 * MASSU

\* enemy/follower.rs 27: the mass of a follower
FOLLOWER_MASS == 4 * MASSU
MINE_SIZE == 60
MINE_DMG == (3 * HPU) \div 2
MINE_FORCE == 200
MINE_FORCE_F_RADIUS == 100
MINE_FORCE_RADIUS == 200
MINE_KNOCKBACK == 250
MINE_DETONATION_TIMER == 4 * SEC
MINE_PROJ_SPEED == 200
MINE_PROJ_DMG == 2 * HPU
MINE_XP == 20
\* the hp mine_ai gives a mine whose timer ran out (mine.rs 161)
MINE_DEAD_HP == -69 * HPU

\* the Mine component keeps its timer in mine_timer and its charge in charge
create_mine(pos, dir, charge) ==
    [ Blank EXCEPT
        !.comps = { "Enemy", "Mine", "Position", "Rotation", "LinearTorgue",
                    "PhysicsMotion", "Sprite", "HitBox", "HurtBox", "Health",
                    "DamageDealer", "Team", "DeleteOnWarp", "ChargeSender",
                    "ChargeReceiver", "KnockbackDealer", "BurstXpOnDeath",
                    "MaxVelocity" },
        !.mine_timer = MINE_DETONATION_TIMER, !.charge = charge,
        !.pos = pos, !.vel = VMulDiv(dir, MINE_SPEED, 1000),
        !.mass = MINE_MASS,
        !.hit_r = MINE_SIZE \div 2, !.hurt_r = MINE_SIZE \div 2,
        !.max_hp = MINE_HEALTH, !.hp = MINE_HEALTH,
        !.dmg = MINE_DMG, !.team = "Enemy",
        !.cs_force = MINE_FORCE * charge,
        !.cs_full = MINE_FORCE_F_RADIUS, !.cs_no = MINE_FORCE_RADIUS,
        !.cr_mult = (5 * MULTU * charge) \div 10,
        !.kb = MINE_KNOCKBACK, !.xp = MINE_XP,
        !.max_vel = MINE_SPEED * 2 ]

\* ------------------------------------------------------------------------
\* enemy/charged.rs : create_supercharged_asteroid
\* ------------------------------------------------------------------------
ASTEROID_CHARGED_FIRE_COOLDOWN == 4 * SEC
ASTEROID_CHARGED_PROJ_DMG == (15 * HPU) \div 10
ASTEROID_CHARGED_PROJ_SPEED == 180
ASTEROID_CHARGED_XP == 15

\* the bundle built before the returned closure runs (charged.rs 57-108)
supercharged_bundle(pos, dir, charge) ==
    [ Blank EXCEPT
        !.comps = { "Enemy", "Position", "Rotation", "LinearTorgue", "PhysicsMotion",
                    "Sprite", "HitBox", "HurtBox", "Health", "DamageDealer", "Team",
                    "DeleteOnWarp", "ChargeSender", "ChargeReceiver",
                    "KnockbackDealer", "BurstXpOnDeath", "MaxVelocity" },
        !.pos = pos, !.vel = VMulDiv(dir, ASTEROID_SPEED, 1000),
        !.mass = ASTEROID_MASS,
        !.hit_r = ASTEROID_SIZE \div 2, !.hurt_r = ASTEROID_SIZE \div 2,
        !.max_hp = ASTEROID_HEALTH, !.hp = ASTEROID_HEALTH,
        !.dmg = ASTEROID_DMG, !.team = "Enemy",
        !.cs_force = Quot(ASTEROID_FORCE * charge, 4),
        !.cs_full = 0, !.cs_no = (ASTEROID_FORCE_F_RADIUS * 10) \div 15,
        !.cr_mult = charge * MULTU,
        !.kb = ASTEROID_KNOCKBACK, !.xp = ASTEROID_CHARGED_XP,
        !.max_vel = ASTEROID_SPEED * 2 ]

\* the outline entity the closure inserts on the reserved id (charged.rs 120-132)
outline_bundle(pos) ==
    [ Blank EXCEPT !.comps = { "Sprite", "Position", "Rotation" }, !.pos = pos ]

\* a command of the CommandBuffer: spawn a bundle, insert a bundle on an
\* existing (or reserved) id, or despawn an id
CmdSpawn(ent) == [ op |-> "spawn", id |-> NoEntity, ent |-> ent ]
CmdInsert(id, ent) == [ op |-> "insert", id |-> id, ent |-> ent ]
CmdDespawn(id) == [ op |-> "despawn", id |-> id, ent |-> Blank ]

\* the closure returned by create_supercharged_asteroid, run on (world, cmd):
\* outline_id is the id world.reserve_entity() returned
create_supercharged_asteroid(pos, dir, charge, outline_id) ==
    << CmdInsert(outline_id, outline_bundle(pos)),
       CmdSpawn([ supercharged_bundle(pos, dir, charge) EXCEPT
                    !.comps = @ \cup { "ChargedAsteroid" },
                    !.cooldown = ASTEROID_CHARGED_FIRE_COOLDOWN,
                    !.outline = outline_id,
                    !.charge = charge ]) >>

\* ------------------------------------------------------------------------
\* state
\* ------------------------------------------------------------------------
VARIABLES
    state,      \* GameState of main()
    world,      \* hecs::World of main(): live entity id -> entity record
    next_id,    \* next entity id the world hands out (spawn, reserve_entity)
    cmd,        \* CommandBuffer of the running game_update: sequence of commands
    events,     \* the event world of main(): sequence of HitEvent records
    player,     \* the Player component of the player entity
    spawner,    \* the EnemySpawner component of the spawner entity
    pc,         \* position of main() inside the current loop iteration
    input,      \* frame time and input devices of the current iteration
    rng,        \* state of the fastrand generator
    frame,      \* number of loop iterations started
    fx          \* FxManager of main(): the particle queue.  Particles are drawn and
                \* read by no pass of game_update; the queue is followed where it is
                \* the subject (SpecFx) and stays as constructed elsewhere

vars == << state, world, next_id, cmd, events, player, spawner, pc, input, rng, frame, fx >>

\* ------------------------------------------------------------------------
\* hecs queries
\* ------------------------------------------------------------------------
\* ids of the entities of w that carry every component of cs
Query(w, cs) == { e \in DOMAIN w : cs \subseteq w[e].comps }

Has(w, e, c) == e \in DOMAIN w /\ c \in w[e].comps

\* query::<&Player>().into_iter().next().unwrap()
PlayerId(w) == CHOOSE e \in Query(w, { "Player" }) : \A o \in Query(w, { "Player" }) : e <= o

\* w with the entities of the sequence ents spawned on the ids first, first + 1, ...
SpawnAll(w, ents, first) ==
    LET fresh == first..(first + Len(ents) - 1)
    IN  [ e \in DOMAIN w \cup fresh |->
            IF e \in fresh THEN ents[e - first + 1] ELSE w[e] ]

EmptyWorld == [ e \in {} |-> Blank ]

\* ------------------------------------------------------------------------
\* game.rs : EnemySpawner
\* ------------------------------------------------------------------------
SPAWN_FALLBACK_COOLDOWN == 10 * SEC
SPAWN_NO_ENEMY_TIMER == 3 * SEC
SPAWN_PUSHBACK == 10
\* f32::NAN in SpawnState::Spawning.time
NAN == -1000000

EnemySpawner_new ==
    [ wave_counter |-> 0, no_enemies |-> TRUE, wave_type |-> 0,
      state |-> "Waiting", timer |-> SPAWN_FALLBACK_COOLDOWN, data |-> 0 ]

\* ------------------------------------------------------------------------
\* game/init.rs
\* ------------------------------------------------------------------------
init_game_entities ==
    << new_entity,
       [ Blank EXCEPT !.comps = { "Position", "HealthDisplay" },
                      !.pos = << SPACE_WIDTH \div 2, SPACE_HEIGHT - 6 >> ],
       [ Blank EXCEPT !.comps = { "Position", "Title", "ScoreDisplay" },
                      !.pos = << SPACE_WIDTH \div 2, 20 >> ],
       [ Blank EXCEPT !.comps = { "EnemySpawner" } ] >>

init_main_menu_entities ==
    << [ Blank EXCEPT !.comps = { "Position", "Title" },
                      !.pos = << SPACE_WIDTH \div 2, 120 >> ],
       [ Blank EXCEPT !.comps = { "Position", "Title", "Button", "StartButton" },
                      !.pos = << SPACE_WIDTH \div 2, 280 >> ] >>

init_pause_entities ==
    << [ Blank EXCEPT !.comps = { "Position", "Title", "Pause" },
                      !.pos = << SPACE_WIDTH \div 2, SPACE_HEIGHT \div 2 >> ] >>

init_game_over_entities ==
    << [ Blank EXCEPT !.comps = { "GameOverTimer" }, !.time = 0 ],
       [ Blank EXCEPT !.comps = { "Position", "Title" },
                      !.pos = << SPACE_WIDTH \div 2, SPACE_HEIGHT \div 2 >> ],
       [ Blank EXCEPT !.comps = { "Position", "Title" },
                      !.pos = << SPACE_WIDTH \div 2, SPACE_HEIGHT \div 2 + 60 >> ],
       [ Blank EXCEPT !.comps = { "Position", "Title", "HighScoreDisplay" },
                      !.pos = << SPACE_WIDTH \div 2, 45 >> ] >>

\* ------------------------------------------------------------------------
\* inputs of one loop iteration
\* ------------------------------------------------------------------------
\* world_mouse_pos(): the cursor rests at the right edge of the playfield
MOUSE == << SPACE_WIDTH, SPACE_HEIGHT \div 2 >>

NoInput ==
    [ dt |-> 0, lmb |-> FALSE, rmb |-> FALSE, keyA |-> FALSE, esc |-> FALSE,
      click |-> FALSE, mouse |-> MOUSE ]

\* the device states enumerated for an iteration in GameState st: the ones
\* that state's update reads
Devices(st) ==
    { NoInput } \cup
    CASE st = "MainMenu" -> { [ NoInput EXCEPT !.click = TRUE ] }
      [] st = "Running"  -> { [ NoInput EXCEPT !.rmb = TRUE ],
                              [ NoInput EXCEPT !.lmb = TRUE ],
                              [ NoInput EXCEPT !.keyA = TRUE ],
                              [ NoInput EXCEPT !.esc = TRUE ] }
      [] OTHER           -> { [ NoInput EXCEPT !.esc = TRUE ] }

\* ------------------------------------------------------------------------
\* player.rs : weapons, motion_update
\* ------------------------------------------------------------------------
\* velocity of a projectile fired by the player p (player.rs 171)
weapons_proj_vel(p) == VAdd(VScaleTo(p.rot, 250), p.vel)

weapons_fires(pl, inp) == pl.fire_timer - inp.dt <= 0 /\ inp.rmb

weapons_cmds(w, pl, inp) ==
    LET p == w[PlayerId(w)]
    IN  IF weapons_fires(pl, inp)
        THEN << CmdSpawn(create_projectile(p.pos, weapons_proj_vel(p), (2 * HPU) \div 10,
                                           "Player",
                                           [ size |-> "Small", charge |-> -pl.polarity ])) >>
        ELSE << >>

weapons_player(pl, inp) ==
    [ pl EXCEPT
        !.fire_timer = IF weapons_fires(pl, inp) THEN PLAYER_FIRE_COOLDOWN
                       ELSE pl.fire_timer - inp.dt,
        !.polarity = IF inp.keyA THEN -pl.polarity ELSE pl.polarity ]

weapons_world(w, pl, inp) ==
    IF inp.keyA
    THEN [ w EXCEPT ![PlayerId(w)].cr_mult = MULTU * (-pl.polarity),
                    ![PlayerId(w)].cs_force = PLAYER_CHARGE_FORCE * (-pl.polarity) ]
    ELSE w

motion_update(w, inp) ==
    LET pid == PlayerId(w)
        p == w[pid]
        friction == IF inp.lmb THEN Powf(700, inp.dt) ELSE Powf(300, inp.dt)
        vel1 == VMulDiv(p.vel, friction, 1000)
        to_mouse == VSub(inp.mouse, p.pos)
        \* atan2(0, 0) is 0: the player faces +x
        rot == IF to_mouse = VZero THEN << 1, 0 >> ELSE to_mouse
        vel2 == IF inp.lmb
                THEN VAdd(vel1, VScaleTo(rot, Quot(PLAYER_ACCEL * inp.dt, SEC)))
                ELSE vel1
    IN  [ w EXCEPT ![pid].vel = vel2, ![pid].rot = rot,
                   ![pid].pos = VAdd(p.pos, VTimesDt(vel2, inp.dt)) ]

\* ------------------------------------------------------------------------
\* enemy/asteroid.rs : big_asteroid_ai ; enemy/charged.rs : supercharged_asteroid_ai
\* ------------------------------------------------------------------------
big_asteroid_ai(w, d) ==
    LET player_pos == w[PlayerId(w)].pos
    IN  [ e \in DOMAIN w |->
            IF { "Position", "PhysicsMotion", "BigAsteroid" } \subseteq w[e].comps
            THEN [ w[e] EXCEPT !.vel = VAdd(@, VScaleTo(VSub(player_pos, w[e].pos),
                                                       Quot(BIG_ASTEROID_FOLLOW * d, SEC))) ]
            ELSE w[e] ]

supercharged_fires(ent, d) == ent.cooldown - d <= 0

supercharged_asteroid_ai_world(w, d) ==
    [ e \in DOMAIN w |->
        IF { "ChargedAsteroid", "Position" } \subseteq w[e].comps
        THEN [ w[e] EXCEPT !.cooldown = IF supercharged_fires(w[e], d)
                                        THEN ASTEROID_CHARGED_FIRE_COOLDOWN
                                        ELSE @ - d ]
        ELSE w[e] ]

supercharged_asteroid_ai_cmds(w, d) ==
    LET player_pos == w[PlayerId(w)].pos
        ids == SortedSeq(Query(w, { "ChargedAsteroid", "Position" }))
    IN  Flatten([ i \in 1..Len(ids) |->
            IF supercharged_fires(w[ids[i]], d)
            THEN << CmdSpawn(create_projectile(
                        w[ids[i]].pos,
                        VScaleTo(VSub(player_pos, w[ids[i]].pos), ASTEROID_CHARGED_PROJ_SPEED),
                        ASTEROID_CHARGED_PROJ_DMG, "Enemy",
                        [ size |-> "Medium", charge |-> w[ids[i]].charge ])) >>
            ELSE << >> ])

\* ------------------------------------------------------------------------
\* enemy/mine.rs : mine_ai
\* ------------------------------------------------------------------------
\* bring detonation timer closer to death; if timer dead, explode
mine_ai(w, d) ==
    [ e \in DOMAIN w |->
        IF { "Health", "Mine" } \subseteq w[e].comps
        THEN [ w[e] EXCEPT !.mine_timer = @ - d,
                           !.hp = IF w[e].mine_timer - d <= 0 THEN MINE_DEAD_HP ELSE @ ]
        ELSE w[e] ]

\* ------------------------------------------------------------------------
\* xp.rs : xp_attraction
\* ------------------------------------------------------------------------
xp_attraction(w, d) ==
    LET player_pos == w[PlayerId(w)].pos
        step == Quot(d * ATTRACTION_MULT_PER_SEC, SEC)
    IN  [ e \in DOMAIN w |->
            IF { "Position", "PhysicsMotion", "XpOrb" } \subseteq w[e].comps
            THEN LET delta == VSub(player_pos, w[e].pos)
                     near == VLenSq(delta) <= ATTRACTION_RADIUS * ATTRACTION_RADIUS
                     v == IF near
                          THEN VScaleTo(delta, Quot(ATTRACTION_SPEED * (1000 + w[e].follow_mult), 1000))
                          ELSE w[e].vel
                 IN  [ w[e] EXCEPT
                        !.vel = VMulDiv(v, Powf(700, d), 1000),
                        !.follow_mult = IF near THEN @ + step ELSE Max(@ - step, 0) ]
            ELSE w[e] ]

\* ------------------------------------------------------------------------
\* basic/motion.rs : PhysicsMotion::apply_force, apply_physics, apply_motion
\* ------------------------------------------------------------------------
\* the velocity change of apply_force(normalize(dirv) * force, dt) on mass m
apply_force_delta(dirv, force, d, m) == VScaleTo(dirv, Quot(force * d * MASSU, SEC * m))

\* damping step (motion.rs 138-147)
damping(ent, d) ==
    LET v1 == VMulDiv(ent.vel, Powf(ent.damp_mul, d), 1000)
    IN  IF VLenSq(v1) <= ent.damp_flat THEN VZero
        ELSE VSub(v1, VScaleTo(v1, Quot(ent.damp_flat * d, SEC)))

\* max velocity step (motion.rs 150-154)
clamp_velocity(v, max_velocity) ==
    IF VLenSq(v) > max_velocity * max_velocity THEN VScaleTo(v, max_velocity) ELSE v

\* a field without falloff: the full force up to no_radius
charge_force_step(b, distance) ==
    IF distance >= b.cs_no THEN 0 ELSE b.cs_force

\* magnitude of the force sender b exerts at the given distance (motion.rs 188-198);
\* 0 where the pair is skipped
charge_force(b, distance) ==
    IF distance >= b.cs_no THEN 0
    ELSE IF distance > b.cs_full
         THEN Quot((b.cs_no - distance) * b.cs_force, b.cs_no - b.cs_full)
         ELSE b.cs_force

\* a shield that is tested before the decrement of its timer
charge_disabled_before_decrement(a, d) == "ChargeDisable" \in a.comps /\ a.cd_timer > 0

\* is receiver a shielded by ChargeDisable after this tick's decrement?
charge_disabled(a, d) == "ChargeDisable" \in a.comps /\ a.cd_timer - d > 0

\* a sender whose full force reaches every receiver, whatever the distance
charge_delta_any_distance(w, a_ind, b_ind, d) ==
    apply_force_delta(VSub(w[a_ind].pos, w[b_ind].pos),
                      Quot(w[a_ind].cr_mult * w[b_ind].cs_force, MULTU), d, w[a_ind].mass)

\* velocity change of receiver a_ind caused by sender b_ind (motion.rs 176-202)
charge_delta(w, a_ind, b_ind, d) ==
    LET a == w[a_ind]
        b == w[b_ind]
        delta == VSub(a.pos, b.pos)
        distance == VLen(delta)
    IN  IF a_ind = b_ind THEN VZero
        ELSE IF VLenSq(delta) = 0 THEN VZero
        ELSE IF distance >= b.cs_no THEN VZero
        ELSE apply_force_delta(delta, Quot(a.cr_mult * charge_force(b, distance), MULTU),
                               d, a.mass)

apply_physics(w, d) ==
    LET damped == [ e \in DOMAIN w |->
                      IF { "PhysicsMotion", "PhysicsDamping" } \subseteq w[e].comps
                      THEN [ w[e] EXCEPT !.vel = damping(w[e], d) ] ELSE w[e] ]
        clamped == [ e \in DOMAIN w |->
                      IF { "PhysicsMotion", "MaxVelocity" } \subseteq damped[e].comps
                      THEN [ damped[e] EXCEPT !.vel = clamp_velocity(@, damped[e].max_vel) ]
                      ELSE damped[e] ]
        senders == SortedSeq(Query(w, { "ChargeSender", "Position" }))
    IN  [ e \in DOMAIN w |->
            IF { "ChargeReceiver", "PhysicsMotion", "Position" } \subseteq w[e].comps
            THEN LET timed == IF "ChargeDisable" \in w[e].comps
                              THEN [ clamped[e] EXCEPT !.cd_timer = @ - d ]
                              ELSE clamped[e]
                 IN  IF charge_disabled(w[e], d) THEN timed
                     ELSE [ timed EXCEPT !.vel = VAdd(@, VSum([ i \in 1..Len(senders) |->
                                   charge_delta(clamped, e, senders[i], d) ])) ]
            ELSE clamped[e] ]

apply_motion(w, d) ==
    [ e \in DOMAIN w |->
        IF { "LinearMotion", "Position" } \subseteq w[e].comps
           \/ { "PhysicsMotion", "Position" } \subseteq w[e].comps
        THEN [ w[e] EXCEPT !.pos = VAdd(@, VTimesDt(w[e].vel, d)) ]
        ELSE w[e] ]

\* ------------------------------------------------------------------------
\* basic.rs : ensure_wrapping
\* ------------------------------------------------------------------------
screen_width == SPACE_WIDTH
screen_height == SPACE_HEIGHT
\* distance outside the screen at which DeleteOnWarp entities are despawned
WARP_MARGIN == 100

\* a wrap that also sends the far edge itself to 0
wrap_x_inclusive(x) ==
    LET x1 == IF x >= screen_width THEN 0 ELSE x
    IN  IF x1 < 0 THEN screen_width ELSE x1

wrap_x(x) ==
    LET x1 == IF x > screen_width THEN 0 ELSE x
    IN  IF x1 < 0 THEN screen_width ELSE x1

\* a wrap that keeps the distance travelled past the edge
wrap_y_modular(y) ==
    LET y1 == IF y > screen_height THEN y - screen_height ELSE y
    IN  IF y1 < 0 THEN y1 + screen_height ELSE y1

wrap_y(y) ==
    LET y1 == IF y > screen_height THEN 0 ELSE y
    IN  IF y1 < 0 THEN screen_height ELSE y1

ensure_wrapping_world(w) ==
    [ e \in DOMAIN w |->
        IF { "Position", "Wrapped" } \subseteq w[e].comps
        THEN [ w[e] EXCEPT !.pos = << wrap_x(@[1]), wrap_y(@[2]) >> ]
        ELSE w[e] ]

\* a delete-on-exit without margin: a despawn per bound of the screen exceeded
warp_despawns_at_edge(id, pos) ==
    (IF pos[1] > screen_width THEN << CmdDespawn(id) >> ELSE << >>)
    \o (IF pos[1] < 0 THEN << CmdDespawn(id) >> ELSE << >>)
    \o (IF pos[2] > screen_height THEN << CmdDespawn(id) >> ELSE << >>)
    \o (IF pos[2] < 0 THEN << CmdDespawn(id) >> ELSE << >>)

\* one despawn per bound exceeded (basic.rs 111-122)
warp_despawns(id, pos) ==
    (IF pos[1] > screen_width + WARP_MARGIN THEN << CmdDespawn(id) >> ELSE << >>)
    \o (IF pos[1] < -WARP_MARGIN THEN << CmdDespawn(id) >> ELSE << >>)
    \o (IF pos[2] > screen_height + WARP_MARGIN THEN << CmdDespawn(id) >> ELSE << >>)
    \o (IF pos[2] < -WARP_MARGIN THEN << CmdDespawn(id) >> ELSE << >>)

ensure_wrapping_cmds(w) ==
    LET ids == SortedSeq(Query(w, { "Position", "DeleteOnWarp" }))
    IN  Flatten([ i \in 1..Len(ids) |-> warp_despawns(ids[i], w[ids[i]].pos) ])

\* ------------------------------------------------------------------------
\* basic/health.rs : HitEvent, Health::heal, ensure_damage
\* ------------------------------------------------------------------------
\* born is the number of the loop iteration that created the event; it is
\* history kept for verification, no system reads it
HitEvent(who, by, can_hurt, born) ==
    [ who |-> who, by |-> by, can_hurt |-> can_hurt, born |-> born ]

\* a heal that does not look at max_hp
heal_unclamped(hp, max_hp, amount) == hp + amount

\* Health::heal (health.rs 43-48)
heal(hp, max_hp, amount) == IF hp + amount > max_hp THEN max_hp ELSE hp + amount

\* are they touching? (health.rs 137-139)
touching_or_tangent(hit, hurt) ==
    VLenSq(VSub(hit.pos, hurt.pos)) <= (hurt.hurt_r + hit.hit_r) * (hurt.hurt_r + hit.hit_r)
touching(hit, hurt) ==
    VLenSq(VSub(hit.pos, hurt.pos)) < (hurt.hurt_r + hit.hit_r) * (hurt.hurt_r + hit.hit_r)

\* ignore self collisions (health.rs 132-135)
ignore_self_never(hit_id, hurt_id) == FALSE
ignore_self(hit_id, hurt_id) == hurt_id = hit_id

Hittable(w) == Query(w, { "Position", "HitBox", "Team" })
Hurting(w) == Query(w, { "Position", "HurtBox", "Team" })

\* the events one call of ensure_damage spawns, in iteration order
ensure_damage(w, born) ==
    LET hits == SortedSeq(Hittable(w))
        hurts == SortedSeq(Hurting(w))
    IN  Flatten([ i \in 1..Len(hits) |->
          Flatten([ j \in 1..Len(hurts) |->
            IF ignore_self(hits[i], hurts[j]) THEN << >>
            ELSE IF touching(w[hits[i]], w[hurts[j]])
                 THEN << HitEvent(hits[i], hurts[j],
                                  Team_can_hurt(w[hurts[j]].team, w[hits[i]].team), born) >>
                 ELSE << >> ]) ])

\* ------------------------------------------------------------------------
\* basic/motion.rs : apply_knockback
\* ------------------------------------------------------------------------
\* does the event pass every check of apply_knockback (motion.rs 212-241)?
knockback_applies_if_hurt(w, ev) ==
    /\ ev.can_hurt
    /\ ev.who # ev.by
    /\ Has(w, ev.by, "KnockbackDealer") /\ Has(w, ev.by, "Position")
    /\ Has(w, ev.who, "PhysicsMotion") /\ Has(w, ev.who, "Position")
knockback_applies(w, ev) ==
    /\ ev.who # ev.by
    /\ Has(w, ev.by, "KnockbackDealer") /\ Has(w, ev.by, "Position")
    /\ Has(w, ev.who, "PhysicsMotion") /\ Has(w, ev.who, "Position")

\* a knockback whose force is applied for the time of the frame
knockback_delta_per_frame(w, ev) ==
    apply_force_delta(VSub(w[ev.who].pos, w[ev.by].pos), w[ev.by].kb, input.dt, w[ev.who].mass)

\* velocity change of the victim (motion.rs 243-244): apply_force(normal * force, 1.0)
knockback_delta(w, ev) ==
    apply_force_delta(VSub(w[ev.who].pos, w[ev.by].pos), w[ev.by].kb, 1 * SEC, w[ev.who].mass)

\* the loop over the events: the positions stay, so every victim's velocity
\* gains the sum of the forces of the events that hit it
apply_knockback(w, evs) ==
    [ e \in DOMAIN w |->
        LET hits == SelectSeq(evs, LAMBDA ev : ev.who = e /\ knockback_applies(w, ev))
        IN  IF hits = << >> THEN w[e]
            ELSE [ w[e] EXCEPT !.vel =
                     VAdd(@, VSum([ i \in 1..Len(hits) |-> knockback_delta(w, hits[i]) ])) ] ]

\* ------------------------------------------------------------------------
\* player.rs : health
\* ------------------------------------------------------------------------
\* early return while the invulnerability frames last (player.rs 227-230)
invul_blocks_never(timer) == FALSE
invul_blocks(timer) == timer > 0

\* does the event take hp from the player pid (player.rs 237-246)?
player_hit_applies_unchecked(w, pid, ev) == ev.who = pid
player_hit_applies(w, pid, ev) ==
    ev.who = pid /\ ev.can_hurt /\ Has(w, ev.by, "DamageDealer")

\* the loop over the hit events (player.rs 238-251); st is
\* [hp |-> player_hp.hp, invul_timer |-> player.invul_timer]
player_health_hits(w, pid, st, evs) ==
    LET hits == SelectSeq(evs, LAMBDA ev : player_hit_applies(w, pid, ev))
    IN  IF hits = << >> THEN st
        ELSE [ hp |-> st.hp - SumSeq([ i \in 1..Len(hits) |-> w[hits[i].by].dmg ]),
               invul_timer |-> PLAYER_INVUL_COOLDOWN ]

\* a health system that regenerates before it looks at the timer
player_health_regen_first(w, pl, evs, d) ==
    LET pid == PlayerId(w)
        timer == pl.invul_timer - d
        healed == heal(w[pid].hp, w[pid].max_hp, Quot(PLAYER_BASE_HP_REGEN * d, SEC))
    IN  IF invul_blocks(timer) THEN [ hp |-> healed, invul_timer |-> timer ]
        ELSE player_health_hits(w, pid, [ hp |-> healed, invul_timer |-> timer ], evs)

\* the whole system: the new [hp, invul_timer] of the player
player_health(w, pl, evs, d) ==
    LET pid == PlayerId(w)
        timer == pl.invul_timer - d
    IN  IF invul_blocks(timer) THEN [ hp |-> w[pid].hp, invul_timer |-> timer ]
        ELSE player_health_hits(w, pid,
                [ hp |-> heal(w[pid].hp, w[pid].max_hp, Quot(PLAYER_BASE_HP_REGEN * d, SEC)),
                  invul_timer |-> timer ],
                evs)

\* ------------------------------------------------------------------------
\* enemy.rs : health
\* ------------------------------------------------------------------------
\* a health system of everything with Health, the player included
enemy_hit_applies_to_all(w, ev) ==
    /\ Has(w, ev.who, "Health")
    /\ Has(w, ev.by, "DamageDealer")

\* does the event take hp from an enemy (enemy.rs 218-226)?
enemy_hit_applies(w, ev) ==
    /\ Has(w, ev.who, "Health") /\ Has(w, ev.who, "Enemy")
    /\ Has(w, ev.by, "DamageDealer")

\* the hp of the enemy who after the first k events of evs
enemy_hp_after(w, evs, who, k) ==
    LET hits == SelectSeq(SubSeq(evs, 1, k),
                          LAMBDA ev : ev.who = who /\ enemy_hit_applies(w, ev))
    IN  w[who].hp - SumSeq([ i \in 1..Len(hits) |-> w[hits[i].by].dmg ])

\* the loop over the hit events; acc is [w |-> world, cmds |-> commands recorded]
enemy_health_eager(acc, evs) ==
    LET w == acc.w
        dead == { e \in DOMAIN w : \E k \in 1..Len(evs) :
                    /\ evs[k].who = e /\ enemy_hit_applies(w, evs[k])
                    /\ enemy_hp_after(w, evs, e, k) <= 0 }
    IN  [ w |-> [ e \in DOMAIN w \ dead |->
                    [ w[e] EXCEPT !.hp = IF Has(w, e, "Enemy")
                                         THEN enemy_hp_after(w, evs, e, Len(evs)) ELSE @ ] ],
          cmds |-> acc.cmds ]
enemy_health(acc, evs) ==
    LET w == acc.w
    IN  [ w |-> [ e \in DOMAIN w |->
                    [ w[e] EXCEPT !.hp = IF Has(w, e, "Enemy")
                                         THEN enemy_hp_after(w, evs, e, Len(evs)) ELSE @ ] ],
          cmds |-> acc.cmds \o
                   Flatten([ k \in 1..Len(evs) |->
                     IF /\ enemy_hit_applies(w, evs[k])
                        /\ enemy_hp_after(w, evs, evs[k].who, k) <= 0
                     THEN << CmdDespawn(evs[k].who) >> ELSE << >> ]) ]

\* ------------------------------------------------------------------------
\* projectile.rs : on_hurt ; xp.rs : xp_absorbtion
\* ------------------------------------------------------------------------
\* an on_hurt that despawns on every hit, hurting or not
on_hurt_any_hit(w, evs) ==
    LET ids == SortedSeq(Query(w, { "Projectile" }))
    IN  Flatten([ i \in 1..Len(ids) |->
            IF \E k \in 1..Len(evs) : evs[k].by = ids[i]
            THEN << CmdDespawn(ids[i]) >> ELSE << >> ])

\* on_hurt (projectile.rs 183-198): the despawns recorded, in query order
on_hurt(w, evs) ==
    LET ids == SortedSeq(Query(w, { "Projectile" }))
    IN  Flatten([ i \in 1..Len(ids) |->
            IF \E k \in 1..Len(evs) : evs[k].can_hurt /\ evs[k].by = ids[i]
            THEN << CmdDespawn(ids[i]) >> ELSE << >> ])

\* an absorption that asks for an event that can hurt
xp_absorbs_if_hurt(w, pid, ev) == ev.can_hurt /\ ev.who = pid /\ Has(w, ev.by, "XpOrb")

\* xp_absorbtion (xp.rs 161-170): the event is about the player and its
\* attacker is an xp orb
xp_absorbs(w, pid, ev) == ev.who = pid /\ Has(w, ev.by, "XpOrb")

\* an absorption that gives up at the first event of the player whose
\* attacker is no xp orb
xp_absorbtion_abort(w, pid, acc, evs) ==
    LET bad == { k \in 1..Len(evs) : evs[k].who = pid /\ ~Has(w, evs[k].by, "XpOrb") }
        stop == IF bad = { } THEN Len(evs)
                ELSE (CHOOSE k \in bad : \A j \in bad : k <= j) - 1
        hits == SelectSeq(SubSeq(evs, 1, stop), LAMBDA ev : xp_absorbs(w, pid, ev))
    IN  [ xp |-> acc.xp + SumSeq([ i \in 1..Len(hits) |-> w[hits[i].by].xp ]),
          cmds |-> acc.cmds \o [ i \in 1..Len(hits) |-> CmdDespawn(hits[i].by) ] ]

\* acc is [xp |-> player.xp, cmds |-> commands recorded]
xp_absorbtion(w, pid, acc, evs) ==
    LET hits == SelectSeq(evs, LAMBDA ev : xp_absorbs(w, pid, ev))
    IN  [ xp |-> acc.xp + SumSeq([ i \in 1..Len(hits) |-> w[hits[i].by].xp ]),
          cmds |-> acc.cmds \o [ i \in 1..Len(hits) |-> CmdDespawn(hits[i].by) ] ]

\* main.rs 136: events.clear()
events_keep(evs) == evs
events_clear(evs) == << >>

\* ------------------------------------------------------------------------
\* fastrand: a deterministic generator whose seed is not known.  The model
\* keeps a congruential generator with RNG_MOD states.
\* ------------------------------------------------------------------------
RNG_MOD == 16
RngNext(r) == (5 * r + 1) % RNG_MOD
\* a draw from lo..hi out of generator state r
RngRange(r, lo, hi) == lo + (r % (hi - lo + 1))

\* Vec2::from_angle(i * PI / 4).rotate(Vec2::X) in thousandths
Unit8(i) ==
    CASE i % 8 = 0 -> << 1000, 0 >>
      [] i % 8 = 1 -> << 707, 707 >>
      [] i % 8 = 2 -> << 0, 1000 >>
      [] i % 8 = 3 -> << -707, 707 >>
      [] i % 8 = 4 -> << -1000, 0 >>
      [] i % 8 = 5 -> << -707, -707 >>
      [] i % 8 = 6 -> << 0, -1000 >>
      [] OTHER     -> << 707, -707 >>

\* Vec2::from_angle(PI / 8 + i * PI / 4).rotate(Vec2::X) in thousandths
Unit8Half(i) ==
    CASE i % 8 = 0 -> << 924, 383 >>
      [] i % 8 = 1 -> << 383, 924 >>
      [] i % 8 = 2 -> << -383, 924 >>
      [] i % 8 = 3 -> << -924, 383 >>
      [] i % 8 = 4 -> << -924, -383 >>
      [] i % 8 = 5 -> << -383, -924 >>
      [] i % 8 = 6 -> << 383, -924 >>
      [] OTHER     -> << 924, -383 >>

\* ------------------------------------------------------------------------
\* basic/fx.rs : FxManager
\* ------------------------------------------------------------------------
\* main.rs 117: FxManager::new(1024)
FX_MAX_PARTICLES == 1024

\* a Particle (fx.rs 8-25), without the sizes and the colour of the renderer;
\* serial is the number of particles added before it: it is history kept for
\* verification, no method reads it
Particle(pos, vel, life) == [ pos |-> pos, vel |-> vel, life |-> life, serial |-> 0 ]

\* FxManager::new (fx.rs 39-44); the front of the VecDeque is element 1;
\* added counts the particles ever added (history)
FxManager_new(max_particles) ==
    [ particles |-> << >>, max_particles |-> max_particles, added |-> 0 ]

\* VecDeque::pop_back: nothing to remove from an empty queue
pop_back(q) == IF q = << >> THEN q ELSE SubSeq(q, 1, Len(q) - 1)

\* FxManager::add_particle (fx.rs 51-58)
add_particle(f, particle) ==
    LET room == IF Len(f.particles) = f.max_particles THEN pop_back(f.particles)
                ELSE f.particles
    IN  [ f EXCEPT !.particles = << [ particle EXCEPT !.serial = f.added ] >> \o room,
                   !.added = @ + 1 ]

\* v turned by k quarter turns, k in -1..1
VTurn(v, k) ==
    CASE k = 1  -> << -v[2], v[1] >>
      [] k = -1 -> << v[2], -v[1] >>
      [] OTHER  -> v

\* FxManager::burst_particles (fx.rs 67-90): angle_deviation in quarter
\* turns; acc is [fx, rng]
RECURSIVE burst_particles(_, _, _, _, _)
burst_particles(acc, base, vel_deviation, angle_deviation, count) ==
    IF count <= 0 THEN acc
    ELSE LET r1 == RngNext(acc.rng)
             turned == VTurn(base.vel, RngRange(acc.rng, -angle_deviation, angle_deviation))
             vel == VScaleTo(turned, VLen(base.vel) + RngRange(r1, -vel_deviation, vel_deviation))
         IN  burst_particles([ fx |-> add_particle(acc.fx, [ base EXCEPT !.vel = vel ]),
                               rng |-> RngNext(r1) ],
                             base, vel_deviation, angle_deviation, count - 1)

\* FxManager::clear_particles (fx.rs 93-95)
clear_particles(f) == [ f EXCEPT !.particles = << >> ]

\* FxManager::update_particles (fx.rs 100-108)
update_particles(f, d) ==
    LET moved == [ i \in 1..Len(f.particles) |->
                    [ f.particles[i] EXCEPT !.pos = VAdd(@, VTimesDt(f.particles[i].vel, d)),
                                            !.life = @ - d ] ]
    IN  [ f EXCEPT !.particles = SelectSeq(moved, LAMBDA part : part.life > 0) ]

\* ------------------------------------------------------------------------
\* enemy/charged.rs : supercharged_asteroid_death
\* ------------------------------------------------------------------------
supercharged_asteroid_death(w) ==
    LET ids == SortedSeq(Query(w, { "ChargedAsteroid", "Health" }))
    IN  Flatten([ i \in 1..Len(ids) |->
            IF w[ids[i]].hp <= 0 THEN << CmdDespawn(w[ids[i]].outline) >> ELSE << >> ])

\* ------------------------------------------------------------------------
\* enemy/asteroid.rs : big_asteroid_death
\* ------------------------------------------------------------------------
\* the commands of the i-th of the 8 fragments of the dead big asteroid big;
\* first is the next free entity id when the big asteroid is visited
big_asteroid_fragment(big, i, first) ==
    LET unit == IF i >= 4 THEN Unit8(2 * i + 1) ELSE Unit8(2 * i)
        reach == IF i >= 4 THEN (ASTEROID_SIZE * 13 * 125) \div 1000
                           ELSE (ASTEROID_SIZE * 13) \div 10
        off == VMulDiv(unit, reach, 1000)
        dir == VAdd(unit, VMulDiv(big.vel, 1000, BIG_ASTEROID_SPEED))
        charge == (IF i >= 4 THEN -1 ELSE 1) * Signum(big.cs_force)
    IN  IF i < 4
        THEN create_supercharged_asteroid(VAdd(off, big.pos), dir, charge, first + i)
        ELSE << CmdSpawn(create_charged_asteroid(VAdd(off, big.pos), dir, charge)) >>

DeadBigAsteroids(w) ==
    { e \in Query(w, { "Health", "Position", "PhysicsMotion", "ChargeSender", "BigAsteroid" }) :
        w[e].hp <= 0 }

\* every dead big asteroid reserves 4 entity ids (world.reserve_entity)
big_asteroid_death_cmds(w, first) ==
    LET ids == SortedSeq(DeadBigAsteroids(w))
    IN  Flatten([ k \in 1..Len(ids) |->
          Flatten([ j \in 1..8 |->
            big_asteroid_fragment(w[ids[k]], j - 1, first + 4 * (k - 1)) ]) ])

big_asteroid_death_reserved(w) == 4 * Cardinality(DeadBigAsteroids(w))

\* ------------------------------------------------------------------------
\* enemy/mine.rs : mine_death
\* ------------------------------------------------------------------------
\* the i-th of the 16 projectiles of the dead mine (mine.rs 184-203)
mine_projectile(mine, i) ==
    LET dir == IF i >= 8 THEN Unit8Half(i) ELSE Unit8(i)
        speed == IF i >= 8 THEN MINE_PROJ_SPEED \div 2 ELSE MINE_PROJ_SPEED
    IN  CmdSpawn(create_projectile(mine.pos, VMulDiv(dir, speed, 1000), MINE_PROJ_DMG,
                                   "Enemy", [ size |-> "Medium", charge |-> mine.charge ]))

\* every mine with hp <= 0 spawns its projectiles; no despawn is recorded
mine_death(w) ==
    LET ids == SortedSeq({ e \in Query(w, { "Health", "Position", "Mine" }) : w[e].hp <= 0 })
    IN  Flatten([ k \in 1..Len(ids) |-> [ j \in 1..16 |-> mine_projectile(w[ids[k]], j - 1) ] ])

\* ------------------------------------------------------------------------
\* xp.rs : xp_bursts
\* ------------------------------------------------------------------------
\* velocity of an orb: Vec2::from_angle(angle).rotate(Vec2::X) * speed
orb_vel(r, base_speed) == VMulDiv(Unit8(r), base_speed + 5 * (RngNext(r) % 4), 1000)

\* a first loop that drops what is too small for a large orb
RECURSIVE burst_big_lossy(_, _, _)
burst_big_lossy(pos, big_xp, acc) ==
    IF big_xp < 10 THEN acc
    ELSE burst_big_lossy(pos, big_xp - 10,
            [ acc EXCEPT !.cmds = Append(@, CmdSpawn(create_orb(pos, orb_vel(acc.rng, 5), 10))),
                         !.rng = RngNext(RngNext(@)) ])

\* first loop (xp.rs 100-113): acc is [cmds, rest, rng]
RECURSIVE burst_big(_, _, _)
burst_big(pos, big_xp, acc) ==
    IF big_xp <= 0 THEN acc
    ELSE IF big_xp < 10 THEN [ acc EXCEPT !.rest = @ + big_xp ]
    ELSE burst_big(pos, big_xp - 10,
            [ acc EXCEPT !.cmds = Append(@, CmdSpawn(create_orb(pos, orb_vel(acc.rng, 5), 10))),
                         !.rng = RngNext(RngNext(@)) ])

\* second loop (xp.rs 115-124)
RECURSIVE burst_rest(_, _)
burst_rest(pos, acc) ==
    IF acc.rest <= 0 THEN acc
    ELSE LET amount == Min(RngRange(acc.rng, 1, 5), acc.rest)
             r1 == RngNext(acc.rng)
         IN  burst_rest(pos,
                [ cmds |-> Append(acc.cmds, CmdSpawn(create_orb(pos, orb_vel(r1, 10), amount))),
                  rest |-> acc.rest - amount,
                  rng |-> RngNext(RngNext(r1)) ])

\* the orbs of one dead entity with BurstXpOnDeath { amount }
xp_burst(pos, amount, r) ==
    burst_rest(pos, burst_big(pos, amount \div 2,
                              [ cmds |-> << >>, rest |-> amount - amount \div 2, rng |-> r ]))

\* acc is [cmds, rng]; ids the entities with BurstXpOnDeath, Position, Health
RECURSIVE xp_bursts(_, _, _)
xp_bursts(w, ids, acc) ==
    IF ids = << >> THEN acc
    ELSE LET ent == w[Head(ids)]
         IN  IF ent.hp <= 0
             THEN LET b == xp_burst(ent.pos, ent.xp, acc.rng)
                  IN  xp_bursts(w, Tail(ids), [ cmds |-> acc.cmds \o b.cmds, rng |-> b.rng ])
             ELSE xp_bursts(w, Tail(ids), acc)

\* ------------------------------------------------------------------------
\* game.rs : enemy_spawning, tripleshot
\* ------------------------------------------------------------------------
get_center_pos(side) ==
    CASE side = 0 -> << screen_width \div 2, -SPAWN_PUSHBACK >>
      [] side = 1 -> << screen_width \div 2, screen_height + SPAWN_PUSHBACK >>
      [] side = 2 -> << -SPAWN_PUSHBACK, screen_height \div 2 >>
      [] OTHER    -> << screen_width + SPAWN_PUSHBACK, screen_height \div 2 >>

\* in thousandths
get_dir(side) ==
    CASE side = 0 -> << 0, 1000 >>
      [] side = 1 -> << 0, -1000 >>
      [] side = 2 -> << 1000, 0 >>
      [] OTHER    -> << -1000, 0 >>

\* Vec2::perp
VPerp(v) == << -v[2], v[1] >>
\* Vec2::from_angle(sign * PI / 6).rotate(v): cos = 0.866, sin = 0.5
VRotate30(v, sign) ==
    << Quot(866 * v[1] - sign * 500 * v[2], 1000),
       Quot(sign * 500 * v[1] + 866 * v[2], 1000) >>

\* the three asteroids of one salvo (game.rs 190-202)
shoot(side, charge) ==
    LET center == get_center_pos(side)
        dir == get_dir(side)
    IN  << CmdSpawn(create_charged_asteroid(center, VMulDiv(dir, 16, 10), charge)),
           CmdSpawn(create_charged_asteroid(VAdd(center, VMulDiv(VPerp(dir), 50, 1000)),
                                            VMulDiv(VRotate30(dir, 1), 13, 10), -charge)),
           CmdSpawn(create_charged_asteroid(VSub(center, VMulDiv(VPerp(dir), 50, 1000)),
                                            VMulDiv(VRotate30(dir, -1), 13, 10), -charge)) >>

\* tripleshot(cmd, timer, data): [cmds, data]
tripleshot(timer, data, r) ==
    LET side == RngRange(r, 0, 3)
        charge == RngRange(RngNext(r), 0, 1) * 2 - 1
        salvo == shoot(side, charge)
        phase == data % 4
    IN  CASE phase = 0 -> [ cmds |-> salvo, data |-> 1 ]
          [] phase = 1 -> IF timer <= (133 * SEC) \div 100
                          THEN [ cmds |-> salvo, data |-> 2 ]
                          ELSE [ cmds |-> << >>, data |-> 1 ]
          [] phase = 2 -> IF timer <= (65 * SEC) \div 100
                          THEN [ cmds |-> salvo, data |-> 3 ]
                          ELSE [ cmds |-> << >>, data |-> 2 ]
          [] OTHER     -> [ cmds |-> << >>, data |-> phase ]

\* enemy_spawning: [spawner, cmds, rng]
enemy_spawning(w, sp, d, r) ==
    LET enemy_count == Cardinality(Query(w, { "Enemy" }))
    IN  IF sp.state = "Waiting"
        THEN LET shortcut == enemy_count = 0 /\ ~sp.no_enemies
                 timer == (IF shortcut THEN SPAWN_NO_ENEMY_TIMER ELSE sp.timer) - d
                 sp1 == [ sp EXCEPT !.no_enemies = IF shortcut THEN TRUE ELSE @,
                                    !.timer = timer ]
             IN  [ spawner |-> IF timer <= 0
                               THEN [ sp1 EXCEPT !.state = "Spawning", !.timer = NAN, !.data = 0 ]
                               ELSE sp1,
                   cmds |-> << >>, rng |-> r ]
        ELSE IF sp.timer = NAN
        THEN \* init the wave: wave_type = fastrand::u8(1..2) = 1, tripleshot_init
             [ spawner |-> [ sp EXCEPT !.wave_counter = @ + 1, !.no_enemies = FALSE,
                                       !.wave_type = 1, !.timer = 2 * SEC ],
               cmds |-> << >>, rng |-> RngNext(r) ]
        ELSE LET time == sp.timer - d
                 shot == IF sp.wave_type = 1 THEN tripleshot(time, sp.data, r)
                         ELSE [ cmds |-> << >>, data |-> sp.data ]
             IN  [ spawner |-> IF time <= 0
                               THEN [ sp EXCEPT !.state = "Waiting",
                                                !.timer = SPAWN_FALLBACK_COOLDOWN,
                                                !.data = shot.data ]
                               ELSE [ sp EXCEPT !.timer = time, !.data = shot.data ],
                   cmds |-> shot.cmds,
                   rng |-> IF sp.wave_type = 1 THEN RngNext(RngNext(r)) ELSE r ]

\* ------------------------------------------------------------------------
\* hecs : CommandBuffer::run_on
\* ------------------------------------------------------------------------
\* the id the k-th command creates: a spawn takes the next free id, an
\* insert names the id reserved for it
created_id(cmds, first, k) ==
    IF cmds[k].op = "spawn"
    THEN first + Cardinality({ j \in 1..(k - 1) : cmds[j].op = "spawn" })
    ELSE IF cmds[k].op = "insert" THEN cmds[k].id ELSE NoEntity

\* the index of the last command that creates or despawns e, 0 if none does
last_command(cmds, first, e) ==
    LET touching_e == { k \in 1..Len(cmds) :
                          \/ created_id(cmds, first, k) = e
                          \/ cmds[k].op = "despawn" /\ cmds[k].id = e }
    IN  IF touching_e = {} THEN 0
        ELSE CHOOSE k \in touching_e : \A j \in touching_e : j <= k

\* the commands run in order: an entity is alive afterwards if the last
\* command about it creates it, or if it was alive and no command is about
\* it; a despawn of an entity that is not alive is ignored.  acc is
\* [w |-> world, next_id |-> next free id]
run_on(acc, cmds) ==
    LET w == acc.w
        ids == DOMAIN w \cup { created_id(cmds, acc.next_id, k) : k \in 1..Len(cmds) }
        alive == { e \in ids \ { NoEntity } :
                     LET k == last_command(cmds, acc.next_id, e)
                     IN  IF k = 0 THEN e \in DOMAIN w ELSE cmds[k].op # "despawn" }
    IN  [ w |-> [ e \in alive |->
                    LET k == last_command(cmds, acc.next_id, e)
                    IN  IF k = 0 THEN w[e] ELSE cmds[k].ent ],
          next_id |-> acc.next_id
                      + Cardinality({ k \in 1..Len(cmds) : cmds[k].op = "spawn" }) ]

\* the systems with the motion integrator called before the force fields
SystemPasses_motion_first ==
    << "weapons", "motion_update", "big_asteroid_ai", "supercharged_asteroid_ai",
       "mine_ai", "xp_attraction", "apply_motion", "apply_physics", "ensure_wrapping",
       "ensure_damage", "apply_knockback", "player_health", "enemy_health",
       "on_hurt", "xp_absorbtion", "supercharged_asteroid_death",
       "big_asteroid_death", "mine_death", "xp_bursts", "enemy_spawning", "run_on" >>

\* ------------------------------------------------------------------------
\* main.rs : the loop ; game/state.rs : GameState::update
\* ------------------------------------------------------------------------
\* the systems of game_update in call order (state.rs 106-156); the follower
\* systems query components no entity of the model carries and the
\* asteroid_death system only emits particles
SystemPasses ==
    << "weapons", "motion_update", "big_asteroid_ai", "supercharged_asteroid_ai",
       "mine_ai", "xp_attraction", "apply_physics", "apply_motion", "ensure_wrapping",
       "ensure_damage", "apply_knockback", "player_health", "enemy_health",
       "on_hurt", "xp_absorbtion", "supercharged_asteroid_death",
       "big_asteroid_death", "mine_death", "xp_bursts", "enemy_spawning", "run_on" >>

\* the system called after the system p
PassAfter(p) ==
    LET i == CHOOSE k \in 1..Len(SystemPasses) : SystemPasses[k] = p
    IN  SystemPasses[i + 1]

\* let dt = get_frame_time(), the steady frame time of the run;
\* state.update(..) dispatches on the state
Loop ==
    /\ pc = "loop"
    /\ frame < MaxFrames
    /\ \E d \in Devices(state) : input' = [ d EXCEPT !.dt = input.dt ]
    /\ frame' = frame + 1
    /\ cmd' = << >>
    /\ pc' = CASE state = "MainMenu" -> "main_menu_update"
               [] state = "Running"  -> "weapons"
               [] state = "Paused"   -> "pause_update"
               [] OTHER              -> "game_over_update"
    /\ UNCHANGED << state, world, next_id, events, player, spawner, rng, fx >>

\* main_menu_update: handle_buttons, init_game
MainMenuUpdate ==
    /\ pc = "main_menu_update"
    /\ IF input.click
       THEN /\ state' = "Running"
            /\ world' = SpawnAll(EmptyWorld, init_game_entities, next_id)
            /\ next_id' = next_id + Len(init_game_entities)
            /\ player' = Player_new
            /\ spawner' = EnemySpawner_new
       ELSE UNCHANGED << state, world, next_id, player, spawner >>
    /\ pc' = "events_clear"
    /\ UNCHANGED << cmd, events, input, rng, frame, fx >>

\* pause_update: clear_pause
PauseUpdate ==
    /\ pc = "pause_update"
    /\ IF input.esc
       THEN /\ state' = "Running"
            /\ world' = [ e \in DOMAIN world \ Query(world, { "Pause" }) |-> world[e] ]
       ELSE UNCHANGED << state, world >>
    /\ pc' = "events_clear"
    /\ UNCHANGED << next_id, cmd, events, player, spawner, input, rng, frame, fx >>

\* game_over_update: the timer, init_main_menu
GameOverUpdate ==
    /\ pc = "game_over_update"
    /\ IF input.esc
       THEN /\ state' = "MainMenu"
            /\ world' = SpawnAll(EmptyWorld, init_main_menu_entities, next_id)
            /\ next_id' = next_id + Len(init_main_menu_entities)
       ELSE /\ world' = [ e \in DOMAIN world |->
                            IF "GameOverTimer" \in world[e].comps
                            THEN [ world[e] EXCEPT !.time = @ + input.dt ]
                            ELSE world[e] ]
            /\ UNCHANGED << state, next_id >>
    /\ pc' = "events_clear"
    /\ UNCHANGED << cmd, events, player, spawner, input, rng, frame, fx >>

\* ------------------------------------------------------------------------
\* game/state.rs : game_update, one action per system call
\* ------------------------------------------------------------------------
Weapons ==
    /\ pc = "weapons"
    /\ cmd' = cmd \o weapons_cmds(world, player, input)
    /\ player' = weapons_player(player, input)
    /\ world' = weapons_world(world, player, input)
    /\ pc' = PassAfter(pc)
    /\ UNCHANGED << state, next_id, events, spawner, input, rng, frame, fx >>

MotionUpdate ==
    /\ pc = "motion_update"
    /\ world' = motion_update(world, input)
    /\ pc' = PassAfter(pc)
    /\ UNCHANGED << state, next_id, cmd, events, player, spawner, input, rng, frame, fx >>

BigAsteroidAi ==
    /\ pc = "big_asteroid_ai"
    /\ world' = big_asteroid_ai(world, input.dt)
    /\ pc' = PassAfter(pc)
    /\ UNCHANGED << state, next_id, cmd, events, player, spawner, input, rng, frame, fx >>

SuperchargedAsteroidAi ==
    /\ pc = "supercharged_asteroid_ai"
    /\ cmd' = cmd \o supercharged_asteroid_ai_cmds(world, input.dt)
    /\ world' = supercharged_asteroid_ai_world(world, input.dt)
    /\ pc' = PassAfter(pc)
    /\ UNCHANGED << state, next_id, events, player, spawner, input, rng, frame, fx >>

MineAi ==
    /\ pc = "mine_ai"
    /\ world' = mine_ai(world, input.dt)
    /\ pc' = PassAfter(pc)
    /\ UNCHANGED << state, next_id, cmd, events, player, spawner, input, rng, frame, fx >>

XpAttraction ==
    /\ pc = "xp_attraction"
    /\ world' = xp_attraction(world, input.dt)
    /\ pc' = PassAfter(pc)
    /\ UNCHANGED << state, next_id, cmd, events, player, spawner, input, rng, frame, fx >>

ApplyPhysics ==
    /\ pc = "apply_physics"
    /\ world' = apply_physics(world, input.dt)
    /\ pc' = PassAfter(pc)
    /\ UNCHANGED << state, next_id, cmd, events, player, spawner, input, rng, frame, fx >>

ApplyMotion ==
    /\ pc = "apply_motion"
    /\ world' = apply_motion(world, input.dt)
    /\ pc' = PassAfter(pc)
    /\ UNCHANGED << state, next_id, cmd, events, player, spawner, input, rng, frame, fx >>

EnsureWrapping ==
    /\ pc = "ensure_wrapping"
    /\ cmd' = cmd \o ensure_wrapping_cmds(world)
    /\ world' = ensure_wrapping_world(world)
    /\ pc' = PassAfter(pc)
    /\ UNCHANGED << state, next_id, events, player, spawner, input, rng, frame, fx >>

EnsureDamage ==
    /\ pc = "ensure_damage"
    /\ events' = events \o ensure_damage(world, frame)
    /\ pc' = PassAfter(pc)
    /\ UNCHANGED << state, world, next_id, cmd, player, spawner, input, rng, frame, fx >>

ApplyKnockback ==
    /\ pc = "apply_knockback"
    /\ world' = apply_knockback(world, events)
    /\ pc' = PassAfter(pc)
    /\ UNCHANGED << state, next_id, cmd, events, player, spawner, input, rng, frame, fx >>

PlayerHealth ==
    /\ pc = "player_health"
    /\ LET r == player_health(world, player, events, input.dt)
       IN  /\ world' = [ world EXCEPT ![PlayerId(world)].hp = r.hp ]
           /\ player' = [ player EXCEPT !.invul_timer = r.invul_timer ]
    /\ pc' = PassAfter(pc)
    /\ UNCHANGED << state, next_id, cmd, events, spawner, input, rng, frame, fx >>

EnemyHealth ==
    /\ pc = "enemy_health"
    /\ LET r == enemy_health([ w |-> world, cmds |-> cmd ], events)
       IN  /\ world' = r.w
           /\ cmd' = r.cmds
    /\ pc' = PassAfter(pc)
    /\ UNCHANGED << state, next_id, events, player, spawner, input, rng, frame, fx >>

OnHurt ==
    /\ pc = "on_hurt"
    /\ cmd' = cmd \o on_hurt(world, events)
    /\ pc' = PassAfter(pc)
    /\ UNCHANGED << state, world, next_id, events, player, spawner, input, rng, frame, fx >>

XpAbsorbtion ==
    /\ pc = "xp_absorbtion"
    /\ LET r == xp_absorbtion(world, PlayerId(world),
                              [ xp |-> player.xp, cmds |-> cmd ], events)
       IN  /\ player' = [ player EXCEPT !.xp = r.xp ]
           /\ cmd' = r.cmds
    /\ pc' = PassAfter(pc)
    /\ UNCHANGED << state, world, next_id, events, spawner, input, rng, frame, fx >>

SuperchargedAsteroidDeath ==
    /\ pc = "supercharged_asteroid_death"
    /\ cmd' = cmd \o supercharged_asteroid_death(world)
    /\ pc' = PassAfter(pc)
    /\ UNCHANGED << state, world, next_id, events, player, spawner, input, rng, frame, fx >>

BigAsteroidDeath ==
    /\ pc = "big_asteroid_death"
    /\ cmd' = cmd \o big_asteroid_death_cmds(world, next_id)
    /\ next_id' = next_id + big_asteroid_death_reserved(world)
    /\ pc' = PassAfter(pc)
    /\ UNCHANGED << state, world, events, player, spawner, input, rng, frame, fx >>

MineDeath ==
    /\ pc = "mine_death"
    /\ cmd' = cmd \o mine_death(world)
    /\ pc' = PassAfter(pc)
    /\ UNCHANGED << state, world, next_id, events, player, spawner, input, rng, frame, fx >>

XpBursts ==
    /\ pc = "xp_bursts"
    /\ LET r == xp_bursts(world,
                          SortedSeq(Query(world, { "BurstXpOnDeath", "Position", "Health" })),
                          [ cmds |-> cmd, rng |-> rng ])
       IN  /\ cmd' = r.cmds
           /\ rng' = r.rng
    /\ pc' = PassAfter(pc)
    /\ UNCHANGED << state, world, next_id, events, player, spawner, input, frame, fx >>

EnemySpawning ==
    /\ pc = "enemy_spawning"
    /\ LET r == enemy_spawning(world, spawner, input.dt, rng)
       IN  /\ spawner' = r.spawner
           /\ cmd' = cmd \o r.cmds
           /\ rng' = r.rng
    /\ pc' = PassAfter(pc)
    /\ UNCHANGED << state, world, next_id, events, player, input, frame, fx >>

\* cmd.run_on(world)
RunOn ==
    /\ pc = "run_on"
    /\ LET r == run_on([ w |-> world, next_id |-> next_id ], cmd)
       IN  /\ world' = r.w
           /\ next_id' = r.next_id
    /\ cmd' = << >>
    /\ pc' = "game_update_return"
    /\ UNCHANGED << state, events, player, spawner, input, rng, frame, fx >>

\* an end of game_update that looks at the player's hp before the Escape key
GameUpdateReturn_game_over_first ==
    /\ pc = "game_update_return"
    /\ IF world[PlayerId(world)].hp <= 0
       THEN /\ state' = "GameOver"
            /\ world' = SpawnAll(world, init_game_over_entities, next_id)
            /\ next_id' = next_id + Len(init_game_over_entities)
       ELSE IF input.esc
       THEN /\ state' = "Paused"
            /\ world' = SpawnAll(world, init_pause_entities, next_id)
            /\ next_id' = next_id + Len(init_pause_entities)
       ELSE UNCHANGED << state, world, next_id >>
    /\ pc' = "events_clear"
    /\ UNCHANGED << cmd, events, player, spawner, input, rng, frame, fx >>

\* the end of game_update (state.rs 158-180): pausing, game over
GameUpdateReturn ==
    /\ pc = "game_update_return"
    /\ IF input.esc
       THEN /\ state' = "Paused"
            /\ world' = SpawnAll(world, init_pause_entities, next_id)
            /\ next_id' = next_id + Len(init_pause_entities)
       ELSE IF world[PlayerId(world)].hp <= 0
       THEN /\ state' = "GameOver"
            /\ world' = SpawnAll(world, init_game_over_entities, next_id)
            /\ next_id' = next_id + Len(init_game_over_entities)
       ELSE UNCHANGED << state, world, next_id >>
    /\ pc' = "events_clear"
    /\ UNCHANGED << cmd, events, player, spawner, input, rng, frame, fx >>

\* main.rs 136
EventsClear ==
    /\ pc = "events_clear"
    /\ events' = events_clear(events)
    /\ pc' = "loop"
    /\ UNCHANGED << state, world, next_id, cmd, player, spawner, input, rng, frame, fx >>

\* ------------------------------------------------------------------------
\* initial states: the program after main() has built the main menu, and
\* the program in the middle of a game
\* ------------------------------------------------------------------------
\* where the player stands in the middle of a game: Player::new_entity's spot
PLAYER_POS == << SPACE_WIDTH \div 2, SPACE_HEIGHT \div 2 >>

\* the entities a game in progress may hold beside the four of init_game
Candidates ==
    << \* a charged asteroid drifting onto the player
       create_charged_asteroid(VAdd(PLAYER_POS, << 20, 0 >>), << -1000, 0 >>, 1),
       \* a charged asteroid of the other charge that overlaps the first one
       \* and the player
       create_charged_asteroid(VAdd(PLAYER_POS, << 0, -20 >>), << 0, 1000 >>, -1),
       \* a big asteroid that overlaps the first asteroid but not the player
       create_big_asteroid(VAdd(PLAYER_POS, << 125, 0 >>), << -1000, 0 >>, 1),
       \* an xp orb flying to the player
       create_orb(VAdd(PLAYER_POS, << 58, 0 >>), VZero, 3),
       \* an xp orb about to reach the player
       create_orb(VAdd(PLAYER_POS, << 0, 45 >>), VZero, 2),
       \* a projectile of a supercharged asteroid about to hit the player
       create_projectile(VAdd(PLAYER_POS, << 0, 90 >>), << 0, -ASTEROID_CHARGED_PROJ_SPEED >>,
                         ASTEROID_CHARGED_PROJ_DMG, "Enemy",
                         [ size |-> "Medium", charge |-> 1 ]) >>

\* the candidate subsets of at most MaxOthers entities, each as the sequence
\* of its bundles in spawn order
Populations ==
    { [ i \in 1..Cardinality(S) |-> Candidates[SortedSeq(S)[i]] ] :
        S \in { T \in SUBSET (1..Len(Candidates)) : Cardinality(T) <= MaxOthers } }

\* EnemySpawner after the first wave has been spawned
spawner_after_wave ==
    [ EnemySpawner_new EXCEPT !.wave_counter = 1, !.no_enemies = FALSE, !.wave_type = 1 ]

\* EnemySpawner at the start of a wave, right after tripleshot_init
spawner_in_wave ==
    [ spawner_after_wave EXCEPT !.state = "Spawning", !.timer = 2 * SEC ]

RngSeeds == { 0, 11 }

\* main(): init_main_menu on the empty world, GameState::MainMenu
InitMainMenu ==
    /\ state = "MainMenu"
    /\ world = SpawnAll(EmptyWorld, init_main_menu_entities, 0)
    /\ next_id = Len(init_main_menu_entities)
    /\ player = Player_new
    /\ spawner = EnemySpawner_new

\* a game in progress: init_game has run on the ids after the main menu's,
\* waves and deaths have brought in the entities of one population
InitRunning ==
    /\ state = "Running"
    /\ \E others \in Populations :
        \E hp \in IF Len(others) <= 1 THEN { PLAYER_MAX_BASE_HP, ASTEROID_DMG }
                  ELSE { PLAYER_MAX_BASE_HP } :
          LET first == Len(init_main_menu_entities)
              game == SpawnAll(EmptyWorld, init_game_entities, first)
              w == SpawnAll(game, others, first + Len(init_game_entities))
          IN  /\ world = [ w EXCEPT ![PlayerId(w)].hp = hp ]
              /\ next_id = first + Len(init_game_entities) + Len(others)
              /\ spawner \in IF others = << >>
                             THEN { EnemySpawner_new, spawner_in_wave }
                             ELSE { spawner_after_wave }
    /\ player = Player_new

\* a game in progress whose only enemy is a mine one second from detonation
InitMined ==
    /\ state = "Running"
    /\ LET first == Len(init_main_menu_entities)
           game == SpawnAll(EmptyWorld, init_game_entities, first)
           mine == [ create_mine(VAdd(PLAYER_POS, << 0, -250 >>), << 0, 1000 >>, 1)
                       EXCEPT !.mine_timer = 1 * SEC ]
       IN  /\ world = SpawnAll(game, << mine >>, first + Len(init_game_entities))
           /\ next_id = first + Len(init_game_entities) + 1
    /\ spawner = spawner_after_wave
    /\ player = Player_new

Init ==
    /\ InitMainMenu \/ InitRunning \/ InitMined
    /\ cmd = << >>
    /\ events = << >>
    /\ pc = "loop"
    /\ input \in { [ NoInput EXCEPT !.dt = t ] : t \in Dts }
    /\ rng \in RngSeeds
    /\ frame = 0
    /\ fx = FxManager_new(FX_MAX_PARTICLES)

Next ==
    \/ Loop
    \/ MainMenuUpdate
    \/ PauseUpdate
    \/ GameOverUpdate
    \/ Weapons
    \/ MotionUpdate
    \/ BigAsteroidAi
    \/ SuperchargedAsteroidAi
    \/ MineAi
    \/ XpAttraction
    \/ ApplyPhysics
    \/ ApplyMotion
    \/ EnsureWrapping
    \/ EnsureDamage
    \/ ApplyKnockback
    \/ PlayerHealth
    \/ EnemyHealth
    \/ OnHurt
    \/ XpAbsorbtion
    \/ SuperchargedAsteroidDeath
    \/ BigAsteroidDeath
    \/ MineDeath
    \/ XpBursts
    \/ EnemySpawning
    \/ RunOn
    \/ GameUpdateReturn
    \/ EventsClear

Spec == Init /\ [][Next]_vars

\* ------------------------------------------------------------------------
\* apply_knockback on its own: the function of (world, events) applied to
\* every bus of at most MaxBus events between the entities of one world
\* ------------------------------------------------------------------------
\* the longest bus handed to apply_knockback
MaxBus == 3

\* a game with a charged asteroid on the player and an xp orb next to them
BusWorld ==
    LET first == Len(init_main_menu_entities)
        game == SpawnAll(EmptyWorld, init_game_entities, first)
    IN  SpawnAll(game, << Candidates[1], Candidates[4] >>, first + Len(init_game_entities))

\* every HitEvent between two entities of BusWorld that take part in
\* collisions, the event of an entity with itself included
BusEvents ==
    { HitEvent(who, by, c, 1) : who \in Query(BusWorld, { "Team" }),
                                by \in Query(BusWorld, { "Team" }),
                                c \in BOOLEAN }

InitBus ==
    /\ state = "Running"
    /\ world = BusWorld
    /\ next_id = Len(init_main_menu_entities) + Len(init_game_entities) + 2
    /\ cmd = << >>
    /\ events \in UNION { [ 1..n -> BusEvents ] : n \in 0..MaxBus }
    /\ player = Player_new
    /\ spawner = spawner_after_wave
    /\ pc = "apply_knockback"
    /\ input \in { [ NoInput EXCEPT !.dt = t ] : t \in Dts }
    /\ rng = 0
    /\ frame = 1
    /\ fx = FxManager_new(FX_MAX_PARTICLES)

NextBus == ApplyKnockback

SpecBus == InitBus /\ [][NextBus]_vars

\* ------------------------------------------------------------------------
\* the physics calls of one Running tick (state.rs 129-132) on drawn inputs:
\* apply_physics, apply_motion and ensure_wrapping run once, in call order,
\* on a game whose velocities, damping factors, distances, ChargeDisable
\* timers and positions are drawn from bounded sets
\* ------------------------------------------------------------------------
\* the largest velocity component, in px/s, of a damped body
MaxSpeed == 3

\* how far, in px, outside and inside the edges of the screen a position is drawn
MaxOut == 2

\* PhysicsDamping::flat_factor and mul_factor (in thousandths) of a damped body
FlatFactors == { 0, 4, 8 }
MulFactors == { 500, 1000 }

\* frame times of the charge worlds: a tenth and a half of a second
ChargeDts == { DT_STEP \div 5, DT_STEP }

\* ChargeDisable timers a projectile spawned with 0.2 s goes through
DisableTimers == { (2 * SEC) \div 10, SEC \div 10, 0, -(SEC \div 10) }

\* distances from the player: on it, next to it, inside its full radius,
\* between the radii, on the outer radius and beyond
ChargeOffsets ==
    { 0, 1, PLAYER_CHARGE_FULL_RADIUS - 50, PLAYER_CHARGE_FULL_RADIUS + 50,
      PLAYER_CHARGE_RADIUS, PLAYER_CHARGE_RADIUS + 1 }

\* coordinates around the two ends of an axis of the given length
EdgeCoords(length) == ((-MaxOut)..MaxOut) \cup ((length - MaxOut)..(length + MaxOut))

\* the game of init_game with the given entities after it
PhysicsWorld(others) ==
    LET first == Len(init_main_menu_entities)
        game == SpawnAll(EmptyWorld, init_game_entities, first)
    IN  SpawnAll(game, others, first + Len(init_game_entities))

\* a body under PhysicsDamping
damped_body(vel, flat_factor, mul_factor) ==
    [ Blank EXCEPT !.comps = { "Position", "PhysicsMotion", "PhysicsDamping" },
                   !.pos = PLAYER_POS, !.vel = vel, !.mass = MASSU,
                   !.damp_flat = flat_factor, !.damp_mul = mul_factor ]

\* worlds with one damped body
DampingWorlds ==
    { PhysicsWorld(<< damped_body(<< vx, vy >>, flat, mul) >>) :
        vx \in (-MaxSpeed)..MaxSpeed, vy \in (-MaxSpeed)..MaxSpeed,
        flat \in FlatFactors, mul \in MulFactors }

\* worlds with an enemy projectile in flight at some distance from the player
ProjectileWorlds ==
    { PhysicsWorld(<< [ create_projectile(VAdd(PLAYER_POS, << dx, 0 >>),
                                          << 0, -ASTEROID_CHARGED_PROJ_SPEED >>,
                                          ASTEROID_CHARGED_PROJ_DMG, "Enemy",
                                          [ size |-> "Medium", charge |-> c ])
                          EXCEPT !.cd_timer = t ] >>) :
        dx \in ChargeOffsets, t \in DisableTimers, c \in { -1, 1 } }

\* worlds with a charged asteroid at some distance from the player
AsteroidWorlds ==
    { PhysicsWorld(<< create_charged_asteroid(VAdd(PLAYER_POS, << 0, dy >>),
                                               << 1000, 0 >>, c) >>) :
        dy \in ChargeOffsets, c \in { -1, 1 } }

\* worlds with the player around the edges of the screen
EdgeWorlds ==
    { [ PhysicsWorld(<< >>) EXCEPT ![PlayerId(PhysicsWorld(<< >>))].pos = << x, y >> ] :
        x \in EdgeCoords(screen_width), y \in EdgeCoords(screen_height) }

InitPhysics ==
    /\ state = "Running"
    /\ \/ world \in DampingWorlds /\ input \in { [ NoInput EXCEPT !.dt = t ] : t \in Dts }
       \/ world \in ProjectileWorlds \cup AsteroidWorlds
            /\ input \in { [ NoInput EXCEPT !.dt = t ] : t \in ChargeDts }
       \/ world \in EdgeWorlds /\ input \in { [ NoInput EXCEPT !.dt = t ] : t \in Dts }
    /\ next_id = Len(init_main_menu_entities) + Len(init_game_entities) + 1
    /\ cmd = << >>
    /\ events = << >>
    /\ player = Player_new
    /\ spawner = spawner_after_wave
    /\ pc = "apply_physics"
    /\ rng = 0
    /\ frame = 1
    /\ fx = FxManager_new(FX_MAX_PARTICLES)

NextPhysics ==
    \/ ApplyPhysics
    \/ ApplyMotion
    \/ EnsureWrapping

SpecPhysics == InitPhysics /\ [][NextPhysics]_vars

\* ------------------------------------------------------------------------
\* the second half of one Running tick (state.rs 132-156), from the boundary
\* pass to the flush, on a game with an asteroid whose position is drawn
\* around the delete-on-exit margins
\* ------------------------------------------------------------------------
\* coordinates around the two delete-on-exit margins of an axis, and its middle
MarginCoords(length) ==
    ((-WARP_MARGIN - MaxOut)..(-WARP_MARGIN + MaxOut))
    \cup { length \div 2 }
    \cup ((length + WARP_MARGIN - MaxOut)..(length + WARP_MARGIN + MaxOut))

\* worlds with an asteroid on its way out of the playfield
WarpWorlds ==
    { PhysicsWorld(<< create_asteroid(<< x, y >>, << 1000, 0 >>) >>) :
        x \in MarginCoords(screen_width), y \in MarginCoords(screen_height) }

InitWarp ==
    /\ state = "Running"
    /\ world \in WarpWorlds
    /\ next_id = Len(init_main_menu_entities) + Len(init_game_entities) + 1
    /\ cmd = << >>
    /\ events = << >>
    /\ player = Player_new
    /\ spawner = spawner_after_wave
    /\ pc = "ensure_wrapping"
    /\ input \in { [ NoInput EXCEPT !.dt = t ] : t \in Dts }
    /\ rng = 0
    /\ frame = 1
    /\ fx = FxManager_new(FX_MAX_PARTICLES)

NextWarp ==
    \/ EnsureWrapping
    \/ EnsureDamage
    \/ ApplyKnockback
    \/ PlayerHealth
    \/ EnemyHealth
    \/ OnHurt
    \/ XpAbsorbtion
    \/ SuperchargedAsteroidDeath
    \/ BigAsteroidDeath
    \/ MineDeath
    \/ XpBursts
    \/ EnemySpawning
    \/ RunOn

SpecWarp == InitWarp /\ [][NextWarp]_vars

\* ------------------------------------------------------------------------
\* the consumers of the event bus (state.rs 134-141) on drawn buses: every
\* bus of at most MaxLookups events between the entities of BusWorld, an
\* entity without any component of a collision and an entity that is gone
\* ------------------------------------------------------------------------
\* the longest bus handed to the consumers
MaxLookups == 2

\* the id of an entity that no longer exists: a main menu entity, despawned
\* when the game began
GoneId == Len(init_main_menu_entities) - 1

\* the ids an event of the drawn buses may name
LookupIds ==
    Query(BusWorld, { "Team" }) \cup Query(BusWorld, { "HealthDisplay" }) \cup { GoneId }

LookupEvents == { HitEvent(who, by, TRUE, 1) : who \in LookupIds, by \in LookupIds }

InitLookups ==
    /\ state = "Running"
    /\ world = BusWorld
    /\ next_id = Len(init_main_menu_entities) + Len(init_game_entities) + 2
    /\ cmd = << >>
    /\ events \in UNION { [ 1..n -> LookupEvents ] : n \in 0..MaxLookups }
    /\ player = Player_new
    /\ spawner = spawner_after_wave
    /\ pc = "apply_knockback"
    /\ input \in { [ NoInput EXCEPT !.dt = t ] : t \in Dts }
    /\ rng = 0
    /\ frame = 1
    /\ fx = FxManager_new(FX_MAX_PARTICLES)

NextLookups ==
    \/ ApplyKnockback
    \/ PlayerHealth
    \/ EnemyHealth
    \/ OnHurt
    \/ XpAbsorbtion

SpecLookups == InitLookups /\ [][NextLookups]_vars

\* ------------------------------------------------------------------------
\* apply_knockback alone (state.rs 134) on drawn dealers: an asteroid, a big
\* asteroid or a mine next to the player or on it, and a bus of at most
\* MaxKnocks events of that dealer hitting the player
\* ------------------------------------------------------------------------
\* the longest bus of hits of one dealer
MaxKnocks == 2

\* where the dealer is, seen from the player: on it, or 20 px away along an axis
KnockOffsets == { << 0, 0 >>, << 20, 0 >>, << -20, 0 >>, << 0, 20 >>, << 0, -20 >> }

\* the dealers: KnockbackDealer forces 500, 700 and 250
KnockDealers(pos) ==
    { create_asteroid(pos, << 1000, 0 >>),
      create_big_asteroid(pos, << 1000, 0 >>, 1),
      create_mine(pos, << 1000, 0 >>, 1) }

KnockWorlds ==
    { PhysicsWorld(<< dealer >>) :
        dealer \in UNION { KnockDealers(VAdd(PLAYER_POS, off)) : off \in KnockOffsets } }

\* the id of the dealer in a world of KnockWorlds
DealerId == Len(init_main_menu_entities) + Len(init_game_entities)

InitKnock ==
    /\ state = "Running"
    /\ world \in KnockWorlds
    /\ next_id = DealerId + 1
    /\ cmd = << >>
    /\ \E n \in 0..MaxKnocks, c \in BOOLEAN :
          events = [ i \in 1..n |-> HitEvent(PlayerId(world), DealerId, c, 1) ]
    /\ player = Player_new
    /\ spawner = spawner_after_wave
    /\ pc = "apply_knockback"
    /\ input \in { [ NoInput EXCEPT !.dt = t ] : t \in Dts }
    /\ rng = 0
    /\ frame = 1
    /\ fx = FxManager_new(FX_MAX_PARTICLES)

NextKnock == ApplyKnockback

SpecKnock == InitKnock /\ [][NextKnock]_vars

\* ------------------------------------------------------------------------
\* apply_physics frame after frame (state.rs 129) on one body under
\* PhysicsDamping that no other system touches: the body has no charge and
\* no box, so between two calls of apply_physics its velocity is left alone
\* ------------------------------------------------------------------------
\* the largest velocity coordinate of a damped body, in px/s
MaxDamped == 4

\* flat factors: none, and one that a second of damping overshoots
DampedFlats == { 0, 8 }

\* mul factors below 1: 0.5 and 0.81
DampedMuls == { 500, 810 }

DampedWorlds ==
    { PhysicsWorld(<< damped_body(<< vx, vy >>, flat, mul) >>) :
        vx \in (-MaxDamped)..MaxDamped, vy \in (-MaxDamped)..MaxDamped,
        flat \in DampedFlats, mul \in DampedMuls }

\* the damped body of a world of DampedWorlds
DampedId == Len(init_main_menu_entities) + Len(init_game_entities)

InitDamped ==
    /\ state = "Running"
    /\ world \in DampedWorlds
    /\ next_id = DampedId + 1
    /\ cmd = << >>
    /\ events = << >>
    /\ player = Player_new
    /\ spawner = spawner_after_wave
    /\ pc = "apply_physics"
    /\ input \in { [ NoInput EXCEPT !.dt = t ] : t \in Dts }
    /\ rng = 0
    /\ frame = 1
    /\ fx = FxManager_new(FX_MAX_PARTICLES)

\* the rest of the frame and the start of the next one, with its frame time
\* (main.rs 130): no system between two calls of apply_physics writes the
\* velocity of the damped body
NextTick ==
    /\ pc = "apply_motion"
    /\ pc' = "apply_physics"
    /\ \E t \in Dts : input' = [ input EXCEPT !.dt = t ]
    /\ UNCHANGED << state, world, next_id, cmd, events, player, spawner, rng, frame, fx >>

NextDamped == ApplyPhysics \/ NextTick

\* the main loop never ends a frame without starting the next
SpecDamped == InitDamped /\ [][NextDamped]_vars /\ WF_vars(NextTick)

\* ------------------------------------------------------------------------
\* the methods of an FxManager called in any order on a manager of a drawn
\* capacity; the specifications of the game leave the queue of main() empty:
\* particles are written by the effects and read by the renderer only
\* ------------------------------------------------------------------------
\* the largest capacity of a drawn manager
MaxParticles == 2

\* the particles added to one manager
MaxAdds == 4

\* the lifetimes of the drawn particles: half a second and a second
FxLives == { SEC \div 2, SEC }

InitFx ==
    /\ state = "Running"
    /\ world = PhysicsWorld(<< >>)
    /\ next_id = Len(init_main_menu_entities) + Len(init_game_entities)
    /\ cmd = << >>
    /\ events = << >>
    /\ player = Player_new
    /\ spawner = spawner_after_wave
    /\ pc = "loop"
    /\ input \in { [ NoInput EXCEPT !.dt = t ] : t \in Dts }
    /\ rng \in RngSeeds
    /\ frame = 1
    /\ fx \in { FxManager_new(n) : n \in 0..MaxParticles }

AddParticle ==
    /\ fx.added < MaxAdds
    /\ \E life \in FxLives :
          fx' = add_particle(fx, Particle(PLAYER_POS, << 100, 0 >>, life))
    /\ UNCHANGED << state, world, next_id, cmd, events, player, spawner, pc, input, rng, frame >>

BurstParticles ==
    /\ \E count \in 0..(MaxAdds - fx.added), life \in FxLives, angle_deviation \in { 0, 1 } :
          LET r == burst_particles([ fx |-> fx, rng |-> rng ],
                                   Particle(PLAYER_POS, << 100, 0 >>, life),
                                   4, angle_deviation, count)
          IN  /\ fx' = r.fx
              /\ rng' = r.rng
    /\ UNCHANGED << state, world, next_id, cmd, events, player, spawner, pc, input, frame >>

\* main.rs 149
UpdateParticles ==
    /\ fx' = update_particles(fx, input.dt)
    /\ UNCHANGED << state, world, next_id, cmd, events, player, spawner, pc, input, rng, frame >>

ClearParticles ==
    /\ fx' = clear_particles(fx)
    /\ UNCHANGED << state, world, next_id, cmd, events, player, spawner, pc, input, rng, frame >>

NextFx == AddParticle \/ BurstParticles \/ UpdateParticles \/ ClearParticles

SpecFx == InitFx /\ [][NextFx]_vars

\* ------------------------------------------------------------------------
\* the collision half of one Running tick (state.rs 137-156) on drawn games:
\* ensure_damage and every consumer of its events up to cmd.run_on, on a game
\* whose projectiles and xp orbs sit on the player, on an asteroid or on
\* nothing, in every combination
\* ------------------------------------------------------------------------
ASTEROID_POS == VAdd(PLAYER_POS, << 300, 0 >>)

HitCandidates ==
    << \* a charged asteroid away from the player
       create_charged_asteroid(ASTEROID_POS, << -1000, 0 >>, 1),
       \* a projectile of the asteroids' team on the asteroid
       create_projectile(ASTEROID_POS, << 0, -ASTEROID_CHARGED_PROJ_SPEED >>,
                         ASTEROID_CHARGED_PROJ_DMG, "Enemy",
                         [ size |-> "Medium", charge |-> 1 ]),
       \* a projectile of the player on the player, as fired
       create_projectile(PLAYER_POS, << 0, -ASTEROID_CHARGED_PROJ_SPEED >>,
                         HPU, "Player", [ size |-> "Small", charge |-> 1 ]),
       \* a projectile of the player on the asteroid
       create_projectile(ASTEROID_POS, << ASTEROID_CHARGED_PROJ_SPEED, 0 >>,
                         HPU, "Player", [ size |-> "Small", charge |-> -1 ]),
       \* an xp orb on the player
       create_orb(VAdd(PLAYER_POS, << 5, 0 >>), VZero, 3),
       \* a second xp orb on the player
       create_orb(VAdd(PLAYER_POS, << 0, -5 >>), VZero, 2),
       \* a projectile of the asteroids' team on the player
       create_projectile(PLAYER_POS, << 0, ASTEROID_CHARGED_PROJ_SPEED >>,
                         ASTEROID_CHARGED_PROJ_DMG, "Enemy",
                         [ size |-> "Medium", charge |-> -1 ]) >>

HitPopulations ==
    { [ i \in 1..Cardinality(S) |-> HitCandidates[SortedSeq(S)[i]] ] :
        S \in SUBSET (1..Len(HitCandidates)) }

InitHits ==
    /\ state = "Running"
    /\ \E others \in HitPopulations :
          LET first == Len(init_main_menu_entities)
              game == SpawnAll(EmptyWorld, init_game_entities, first)
          IN  /\ world = SpawnAll(game, others, first + Len(init_game_entities))
              /\ next_id = first + Len(init_game_entities) + Len(others)
    /\ cmd = << >>
    /\ events = << >>
    /\ player \in { [ Player_new EXCEPT !.invul_timer = t, !.xp = x ] :
                        t \in { 0, PLAYER_INVUL_COOLDOWN }, x \in { 0, 7 } }
    /\ spawner = spawner_after_wave
    /\ pc = "ensure_damage"
    /\ input \in { [ NoInput EXCEPT !.dt = t ] : t \in Dts }
    /\ rng = 0
    /\ frame = 1
    /\ fx = FxManager_new(FX_MAX_PARTICLES)

NextHits ==
    \/ EnsureDamage
    \/ ApplyKnockback
    \/ PlayerHealth
    \/ EnemyHealth
    \/ OnHurt
    \/ XpAbsorbtion
    \/ SuperchargedAsteroidDeath
    \/ BigAsteroidDeath
    \/ MineDeath
    \/ XpBursts
    \/ EnemySpawning
    \/ RunOn

SpecHits == InitHits /\ [][NextHits]_vars

\* ------------------------------------------------------------------------
\* the second half of one Running tick on games with a supercharged asteroid
\* and its outline around the delete-on-exit margins and in the middle of the
\* playfield, alone or under a projectile of the player that kills it
\* ------------------------------------------------------------------------
\* the game with a supercharged asteroid built by its closure at pos and, if
\* shot, a projectile of the player on it
OutlineWorld(pos, shot) ==
    LET game == PhysicsWorld(<< >>)
        first == Len(init_main_menu_entities) + Len(init_game_entities)
        built == run_on([ w |-> game, next_id |-> first + 1 ],
                        create_supercharged_asteroid(pos, << 1000, 0 >>, 1, first))
    IN  IF shot
        THEN SpawnAll(built.w,
                      << create_projectile(pos, << 0, -ASTEROID_CHARGED_PROJ_SPEED >>, HPU,
                                           "Player", [ size |-> "Small", charge |-> 1 ]) >>,
                      built.next_id)
        ELSE built.w

InitOutline ==
    /\ state = "Running"
    /\ \E x \in MarginCoords(screen_width), y \in MarginCoords(screen_height), shot \in BOOLEAN :
          world = OutlineWorld(<< x, y >>, shot)
    /\ next_id = Len(init_main_menu_entities) + Len(init_game_entities) + 3
    /\ cmd = << >>
    /\ events = << >>
    /\ player = Player_new
    /\ spawner = spawner_after_wave
    /\ pc = "ensure_wrapping"
    /\ input \in { [ NoInput EXCEPT !.dt = t ] : t \in Dts }
    /\ rng = 0
    /\ frame = 1
    /\ fx = FxManager_new(FX_MAX_PARTICLES)

SpecOutline == InitOutline /\ [][NextWarp]_vars

\* ------------------------------------------------------------------------
\* enemy_spawning over the frames of a game (game.rs 53-120): the spawner
\* starts Waiting with any time left on its timer, with or without an enemy
\* on the field, and is followed through at most MaxWaves waves; the other
\* passes of a tick do not write the spawner
\* ------------------------------------------------------------------------
\* number of waves a run is followed through
MaxWaves == 1

\* the times a Waiting spawner can have left, in steps of the frame time
WaitTimers == { k * DT_STEP : k \in 1..(SPAWN_FALLBACK_COOLDOWN \div DT_STEP) }

InitWave ==
    /\ state = "Running"
    /\ world \in { PhysicsWorld(<< >>),
                   PhysicsWorld(<< create_asteroid(ASTEROID_POS, << -1000, 0 >>) >>) }
    /\ next_id = Len(init_main_menu_entities) + Len(init_game_entities) + 1
    /\ cmd = << >>
    /\ events = << >>
    /\ player = Player_new
    /\ \E t \in WaitTimers, b \in BOOLEAN :
          spawner = [ spawner_after_wave EXCEPT !.timer = t, !.no_enemies = b ]
    /\ pc = "enemy_spawning"
    /\ input \in { [ NoInput EXCEPT !.dt = t ] : t \in Dts }
    /\ rng = 0
    /\ frame = 1
    /\ fx = FxManager_new(FX_MAX_PARTICLES)

\* the rest of the frame and the passes of the next one up to
\* enemy_spawning, with its frame time (main.rs 130) and its new
\* CommandBuffer (state.rs 118)
WaveTick ==
    /\ pc = "game_update_return"
    /\ spawner.state = "Spawning" \/ spawner.wave_counter < 1 + MaxWaves
    /\ pc' = "enemy_spawning"
    /\ cmd' = << >>
    /\ \E t \in Dts : input' = [ input EXCEPT !.dt = t ]
    /\ UNCHANGED << state, world, next_id, events, player, spawner, rng, frame, fx >>

NextWave == EnemySpawning \/ RunOn \/ WaveTick

SpecWave == InitWave /\ [][NextWave]_vars

\* ------------------------------------------------------------------------
\* properties
\* ------------------------------------------------------------------------
\* the system calls of game_update as a set
InTick == { SystemPasses[i] : i \in 1..Len(SystemPasses) }

\* the consumers of the event bus
Consumers == { "apply_knockback", "player_health", "enemy_health", "on_hurt", "xp_absorbtion" }

\* C1: during a Running tick no system call but cmd.run_on changes the set of
\* live entities: until the flush every requested spawn stays an untouched
\* bundle of the CommandBuffer, every entity whose despawn is requested is
\* still alive, and every HitEvent names live entities only; the flush
\* empties the buffer.
C1_DeferredMutation ==
    [][ (pc \in InTick) =>
          /\ pc # "run_on" =>
                /\ DOMAIN world' = DOMAIN world
                /\ Len(cmd') >= Len(cmd) /\ SubSeq(cmd', 1, Len(cmd)) = cmd
                /\ \A k \in 1..Len(cmd') :
                      cmd'[k].op = "despawn" => cmd'[k].id \in DOMAIN world'
                /\ \A k \in 1..Len(events') :
                      { events'[k].who, events'[k].by } \subseteq DOMAIN world'
          /\ pc = "run_on" => Len(cmd') = 0
      ]_vars

\* C1 witness: at the flush the buffer holds a spawn and the despawn of a
\* live entity
C1_Witness ==
    /\ pc = "run_on"
    /\ \E k \in 1..Len(cmd) : cmd[k].op = "spawn"
    /\ \E k \in 1..Len(cmd) : cmd[k].op = "despawn" /\ cmd[k].id \in DOMAIN world

\* C2: the event store is empty whenever an update starts and until collision
\* detection has run; every event on the bus was created in the current
\* frame; the bus holds no event twice; no consumer changes the bus.
C2_EventsPerFrame ==
    [][ /\ pc' \notin Consumers \cup { "on_hurt", "supercharged_asteroid_death",
                                       "big_asteroid_death", "mine_death", "xp_bursts",
                                       "enemy_spawning", "run_on", "game_update_return",
                                       "events_clear" }
            => events' = << >>
        /\ \A k \in 1..Len(events') : events'[k].born = frame'
        /\ \A i, j \in 1..Len(events') : i # j => events'[i] # events'[j]
        /\ pc \in Consumers => events' = events
      ]_vars

\* C2 witness: a frame in which the player was hit has ended and the bus is
\* empty again
C2_Witness ==
    /\ pc = "loop" /\ frame > 0
    /\ player.invul_timer = PLAYER_INVUL_COOLDOWN
    /\ events = << >>

\* C3 (as amended): right after ensure_damage, for every victim with
\* Position, HitBox, Team and every OTHER entity with Position, HurtBox, Team,
\* whatever the teams, the bus holds exactly one HitEvent of the pair if
\* dx*dx + dy*dy < (hit radius + hurt radius)^2 and none otherwise.
C3_GeometricDistinct ==
    pc = "apply_knockback" =>
        \A h \in Hittable(world), a \in Hurting(world) :
            h # a =>
                LET d == VSub(world[h].pos, world[a].pos)
                    r == world[h].hit_r + world[a].hurt_r
                    n == Cardinality({ k \in 1..Len(events) :
                                         events[k].who = h /\ events[k].by = a })
                IN  n = IF d[1] * d[1] + d[2] * d[2] < r * r THEN 1 ELSE 0

\* C3 as stated: the same for every pair, the pair of an entity with itself
\* included
C3_GeometricAnyPair ==
    pc = "apply_knockback" =>
        \A h \in Hittable(world), a \in Hurting(world) :
            LET d == VSub(world[h].pos, world[a].pos)
                r == world[h].hit_r + world[a].hurt_r
                n == Cardinality({ k \in 1..Len(events) :
                                     events[k].who = h /\ events[k].by = a })
            IN  n = IF d[1] * d[1] + d[2] * d[2] < r * r THEN 1 ELSE 0

\* C3 witness: detection has run on a pair at exactly the sum of the radii
\* and on an overlapping pair of one team
C3_Witness ==
    /\ pc = "apply_knockback"
    /\ \E h \in Hittable(world), a \in Hurting(world) :
          /\ h # a
          /\ VLenSq(VSub(world[h].pos, world[a].pos))
                = (world[h].hit_r + world[a].hurt_r) * (world[h].hit_r + world[a].hurt_r)
    /\ \E k \in 1..Len(events) : world[events[k].who].team = world[events[k].by].team

\* C4: as long as both entities of a HitEvent live, its can_hurt equals
\* (attacker team # victim team).
C4_CanHurtIsTeamDifference ==
    \A k \in 1..Len(events) :
        { events[k].who, events[k].by } \subseteq DOMAIN world =>
            events[k].can_hurt = (world[events[k].by].team # world[events[k].who].team)

\* C4 witness: after the last consumer the bus holds an event of two teams
\* and an event of one team
C4_Witness ==
    /\ pc = "supercharged_asteroid_death"
    /\ \E k \in 1..Len(events) : events[k].can_hurt
    /\ \E k \in 1..Len(events) : ~events[k].can_hurt

\* C5 (as amended): no HitEvent has who = by: an entity never collides with
\* itself.
C5_NoSelfHit == \A k \in 1..Len(events) : events[k].who # events[k].by

\* C5 as stated: after detection every entity with HitBox and HurtBox of a
\* positive radii sum has a HitEvent with who = by
C5_SelfHit ==
    pc = "apply_knockback" =>
        \A e \in Hittable(world) \cap Hurting(world) :
            world[e].hit_r + world[e].hurt_r > 0 =>
                \E k \in 1..Len(events) : events[k].who = e /\ events[k].by = e

\* C5 witness: detection has run on an entity with both boxes that overlaps
\* another entity
C5_Witness ==
    /\ pc = "apply_knockback"
    /\ \E k \in 1..Len(events) :
          events[k].who \in Hittable(world) \cap Hurting(world)

\* C6: apply_knockback ignores can_hurt: every entity's velocity gains one
\* push per HitEvent that hits it with who # by, an attacker with
\* KnockbackDealer and Position and a victim with PhysicsMotion and Position,
\* whatever can_hurt says; each push points from the attacker to the victim;
\* an entity hit by no such event keeps its velocity, and nothing but
\* velocities changes.
C6_KnockbackIgnoresTeam ==
    [][ (pc = "apply_knockback") =>
          /\ DOMAIN world' = DOMAIN world
          /\ \A e \in DOMAIN world :
                LET pushes == SelectSeq(events, LAMBDA ev :
                                /\ ev.who = e /\ ev.who # ev.by
                                /\ { "KnockbackDealer", "Position" } \subseteq world[ev.by].comps
                                /\ { "PhysicsMotion", "Position" } \subseteq world[e].comps)
                    along(ev) == VSub(world[ev.who].pos, world[ev.by].pos)
                IN  /\ world'[e] = [ world[e] EXCEPT !.vel = world'[e].vel ]
                    /\ world'[e].vel =
                         VAdd(world[e].vel,
                              VSum([ i \in 1..Len(pushes) |-> knockback_delta(world, pushes[i]) ]))
                    /\ \A i \in 1..Len(pushes) :
                          along(pushes[i]) # VZero =>
                              VDot(knockback_delta(world, pushes[i]), along(pushes[i])) > 0
      ]_vars

\* C6 witness: knockback has just run on a bus with a pushing event of one
\* team, a pushing event of two teams and the event of an attacker with
\* itself
C6_Witness ==
    /\ pc = "player_health"
    /\ \E k \in 1..Len(events) : ~events[k].can_hurt /\ knockback_applies(world, events[k])
    /\ \E k \in 1..Len(events) : events[k].can_hurt /\ knockback_applies(world, events[k])
    /\ \E k \in 1..Len(events) :
          /\ events[k].who = events[k].by
          /\ { "KnockbackDealer", "PhysicsMotion", "Position" }
                \subseteq world[events[k].who].comps

\* C7: player::health takes hp from the player only for the events with
\* who = player, can_hurt and an attacker with DamageDealer, each by its dmg;
\* without such an event the hp does not fall and the invulnerability timer
\* only counts down by dt.
C7_PlayerDamageGated ==
    [][ (pc = "player_health") =>
          LET pid == PlayerId(world)
              hits == SelectSeq(events, LAMBDA ev :
                        /\ ev.who = pid /\ ev.can_hurt
                        /\ "DamageDealer" \in world[ev.by].comps)
              total == SumSeq([ i \in 1..Len(hits) |-> world[hits[i].by].dmg ])
          IN  /\ world'[pid].hp < world[pid].hp => hits # << >>
              /\ hits = << >> =>
                    /\ world'[pid].hp >= world[pid].hp
                    /\ player'.invul_timer = player.invul_timer - input.dt
              /\ world'[pid].hp < world[pid].hp =>
                    world'[pid].hp =
                        Min(world[pid].hp + Quot(PLAYER_BASE_HP_REGEN * input.dt, SEC),
                            world[pid].max_hp) - total
      ]_vars

\* C7 witness: player::health has just applied a hit in a tick whose bus also
\* holds an event to the player that must not count
C7_Witness ==
    /\ pc = "enemy_health"
    /\ player.invul_timer = PLAYER_INVUL_COOLDOWN
    /\ world[PlayerId(world)].hp < PLAYER_MAX_BASE_HP
    /\ \E k \in 1..Len(events) :
          /\ events[k].who = PlayerId(world)
          /\ ~events[k].can_hurt \/ "DamageDealer" \notin world[events[k].by].comps

C9_SingleHitPerTick ==
    [][ (pc = "player_health" /\ player.invul_timer - input.dt <= 0) =>
          LET pid == PlayerId(world)
              hits == { k \in 1..Len(events) :
                          /\ events[k].who = pid /\ events[k].can_hurt
                          /\ "DamageDealer" \in world[events[k].by].comps }
              healed == Min(world[pid].hp + Quot(PLAYER_BASE_HP_REGEN * input.dt, SEC),
                            world[pid].max_hp)
          IN  hits # {} =>
                \E k \in hits : world'[pid].hp = healed - world[events[k].by].dmg
      ]_vars

\* C10 as stated: enemy::health takes no hp from an Enemy on behalf of an
\* event whose attacker is of the enemy's team: an Enemy addressed only by
\* events with can_hurt false keeps its hp.
C10_EnemyDamageGated ==
    [][ (pc = "enemy_health") =>
          \A e \in Query(world, { "Enemy", "Health" }) :
              (\A k \in 1..Len(events) : events[k].who = e => ~events[k].can_hurt)
                  => world'[e].hp = world[e].hp
      ]_vars

\* C11 as stated: every Enemy whose hp is <= 0 after the damage resolvers has
\* a despawn recorded in the tick's CommandBuffer when the flush starts, and
\* after the flush no Enemy with hp <= 0 is left in the world.
C11_DeadEnemyDespawned ==
    /\ pc = "run_on" =>
          \A e \in Query(world, { "Enemy", "Health" }) :
              world[e].hp <= 0 =>
                  \E k \in 1..Len(cmd) : cmd[k].op = "despawn" /\ cmd[k].id = e
    /\ pc = "game_update_return" =>
          \A e \in Query(world, { "Enemy", "Health" }) : world[e].hp > 0

\* C11, the part the code keeps: an Enemy that a hit of enemy::health brings
\* to hp <= 0 has its despawn recorded by that very call.
C11_HitEnemyDespawned ==
    [][ (pc = "enemy_health") =>
          \A e \in Query(world, { "Enemy", "Health" }) :
              (world'[e].hp <= 0 /\ world'[e].hp < world[e].hp) =>
                  \E k \in 1..Len(cmd') : cmd'[k].op = "despawn" /\ cmd'[k].id = e
      ]_vars

\* C12 as stated: whenever the player's hp is <= 0 when the system calls of a
\* Running tick are over, that update returns GameState::GameOver with the
\* player entity still in the world; and no system call of game_update ever
\* starts on a player with hp <= 0.
C12_DeathIsGameOver ==
    [][ /\ (pc = "game_update_return" /\ world[PlayerId(world)].hp <= 0) =>
              /\ state' = "GameOver"
              /\ Query(world', { "Player" }) = Query(world, { "Player" })
        /\ pc' = "weapons" => world'[PlayerId(world')].hp > 0
      ]_vars

\* C12, the part the code keeps: a tick that ends with hp <= 0 and without
\* Escape pressed returns GameState::GameOver and keeps the player entity.
C12_DeathWithoutPause ==
    [][ (pc = "game_update_return" /\ world[PlayerId(world)].hp <= 0 /\ ~input.esc) =>
              /\ state' = "GameOver"
              /\ Query(world', { "Player" }) = Query(world, { "Player" })
      ]_vars

\* ------------------------------------------------------------------------
\* C13: the order of the passes of a Running tick
\* ------------------------------------------------------------------------
\* the passes of game_update C13 speaks of, in the order C13 gives them:
\* motion integration first, the force fields second
ClaimedPasses ==
    << "apply_motion", "apply_physics", "ensure_wrapping", "ensure_damage",
       "apply_knockback", "player_health", "enemy_health" >>

\* the same passes in the order game_update calls them (state.rs 129-138)
CalledPasses ==
    << "apply_physics", "apply_motion", "ensure_wrapping", "ensure_damage",
       "apply_knockback", "player_health", "enemy_health" >>

\* the entities delete-on-exit asks to despawn: DeleteOnWarp entities more
\* than the margin outside the screen
OutOfSpace(w) ==
    { e \in Query(w, { "Position", "DeleteOnWarp" }) : warp_despawns(e, w[e].pos) # << >> }

PositionWriters == { "apply_motion", "ensure_wrapping", "run_on" }

\* C14 as stated: in a Running tick the motion integrator advances the
\* position of every entity with PhysicsMotion and Position, the player
\* included, by velocity * dt of the velocity it finds, and no other system
\* call but the boundary wrap writes a Position
C14_PositionAdvancedOnce ==
    [][ /\ (pc = "apply_motion") =>
                \A e \in Query(world, { "PhysicsMotion", "Position" }) :
                    world'[e].pos = VAdd(world[e].pos, VTimesDt(world[e].vel, input.dt))
        /\ (pc \in InTick \ PositionWriters) =>
                \A e \in Query(world, { "Position" }) : world'[e].pos = world[e].pos
      ]_vars

\* C14 holds of every entity but the player: such an entity is moved by the
\* motion integrator, by velocity * dt, and by no other system call but the wrap
C14_OthersAdvancedOnce ==
    [][ /\ (pc = "apply_motion") =>
                \A e \in Query(world, { "PhysicsMotion", "Position" }) :
                    world'[e].pos = VAdd(world[e].pos, VTimesDt(world[e].vel, input.dt))
        /\ (pc \in InTick \ PositionWriters) =>
                \A e \in Query(world, { "Position" }) \ { PlayerId(world) } :
                    world'[e].pos = world[e].pos
      ]_vars


\* ------------------------------------------------------------------------
\* C15: MaxVelocity
\* ------------------------------------------------------------------------
\* the entities moving faster than their MaxVelocity allows; lengths are
\* taken in whole px/s, which leaves room for the rounding of the clamp
TooFast(w) ==
    { e \in Query(w, { "PhysicsMotion", "MaxVelocity" }) : VLen(w[e].vel) > w[e].max_vel }

\* C15 as stated: at the end of every Running tick, after the charge forces
\* and the knockback, every entity with PhysicsMotion and MaxVelocity has
\* |velocity| <= max_velocity
C15_MaxVelocityIsHardCap ==
    pc = "game_update_return" => TooFast(world) = { }

\* what the clamp does give: the clamped velocity is within max_velocity,
\* and it is the velocity apply_physics leaves to an entity that receives no
\* charge force in the call
C15_ClampedBeforeCharges ==
    [][ (pc = "apply_physics") =>
            \A e \in Query(world, { "PhysicsMotion", "MaxVelocity" }) :
                LET clamped == clamp_velocity(world[e].vel, world[e].max_vel)
                IN  /\ VLen(clamped) <= world[e].max_vel
                    /\ (\A b \in Query(world, { "ChargeSender", "Position" }) :
                            charge_delta(world, e, b, input.dt) = VZero)
                          => world'[e].vel = clamped
      ]_vars


\* ------------------------------------------------------------------------
\* C16: flat damping
\* ------------------------------------------------------------------------
\* C16 as stated: the damping step of apply_physics never reverses a
\* velocity: for every velocity v, flat_factor >= 0, mul_factor > 0 and
\* dt >= 0 the velocity it leaves is exactly zero or has a positive dot
\* product with v
C16_DampingNeverReverses ==
    [][ (pc = "apply_physics") =>
            \A e \in Query(world, { "PhysicsMotion", "PhysicsDamping" }) :
                \/ world'[e].vel = VZero
                \/ VDot(world'[e].vel, world[e].vel) > 0
      ]_vars

\* where the damping step does keep the direction: a velocity whose length
\* after the multiplication is at least flat_factor * dt
C16_NoReversalOfFastBodies ==
    [][ (pc = "apply_physics") =>
            \A e \in Query(world, { "PhysicsMotion", "PhysicsDamping" }) :
                LET v1 == VMulDiv(world[e].vel, Powf(world[e].damp_mul, input.dt), 1000)
                IN  Quot(world[e].damp_flat * input.dt, SEC) <= VLen(v1) =>
                        \/ world'[e].vel = VZero
                        \/ VDot(world'[e].vel, world[e].vel) > 0
      ]_vars


\* ------------------------------------------------------------------------
\* C17, C18: the charge pass of apply_physics
\* ------------------------------------------------------------------------
\* the velocity of entity e after the damping and the clamp of apply_physics,
\* before the charge forces of the same call
BeforeCharges(w, e, d) ==
    LET v == IF { "PhysicsMotion", "PhysicsDamping" } \subseteq w[e].comps
             THEN damping(w[e], d) ELSE w[e].vel
    IN  IF { "PhysicsMotion", "MaxVelocity" } \subseteq w[e].comps
        THEN clamp_velocity(v, w[e].max_vel) ELSE v

\* the receivers and the senders of the charge pass
Receivers(w) == Query(w, { "ChargeReceiver", "PhysicsMotion", "Position" })
Senders(w) == Query(w, { "ChargeSender", "Position" })

\* the shield of C17 and C18: the receiver carries ChargeDisable and its
\* timer, decremented by dt, is still above 0
Shielded(w, r, d) == "ChargeDisable" \in w[r].comps /\ w[r].cd_timer - d > 0

\* the senders C17 lets act on receiver r: another entity, further than 0.1
\* (on the px grid: not at the same point) and nearer than its no_radius, r
\* not being shielded
ActingOn(w, r, d) ==
    { s \in Senders(w) :
        /\ s # r
        /\ VLenSq(VSub(w[r].pos, w[s].pos)) > 0
        /\ VLenSq(VSub(w[r].pos, w[s].pos)) < w[s].cs_no * w[s].cs_no
        /\ ~Shielded(w, r, d) }

\* C17: in the charge pass a receiver's velocity is changed only by senders
\* other than itself, further than 0.1 and nearer than the sender's
\* no_radius, and only if the receiver has no ChargeDisable or its timer is
\* <= 0 after this tick's decrement; an entity that sends and receives is never
\* accelerated by its own field; two distinct entities further apart than 0.1
\* still act on each other: within the full radius the receiver gains
\* multiplier * force * dt / mass along the line from the sender
C17_ChargePairs ==
    [][ (pc = "apply_physics") =>
            \A r \in Receivers(world) :
                LET base == BeforeCharges(world, r, input.dt)
                    gain == VSub(world'[r].vel, base)
                    acting == ActingOn(world, r, input.dt)
                IN  /\ gain # VZero => acting # { }
                    /\ acting \subseteq { r } => gain = VZero
                    /\ \A s \in acting :
                          LET away == VSub(world[r].pos, world[s].pos)
                              push == Quot(Quot(world[r].cr_mult * world[s].cs_force, MULTU)
                                             * input.dt * MASSU, SEC * world[r].mass)
                          IN  (acting = { s } /\ VLen(away) <= world[s].cs_full) =>
                                  gain = VScaleTo(away, push)
      ]_vars

\* C17 witness: the charge pass has run on a player and a charged asteroid one
\* px apart, both senders and receivers, and has accelerated the player, who
\* was at rest
C17_Witness ==
    /\ pc = "apply_motion"
    /\ \E s \in Senders(world) \cap Receivers(world) :
        /\ s # PlayerId(world)
        /\ VLenSq(VSub(world[PlayerId(world)].pos, world[s].pos)) = 1
        /\ world[PlayerId(world)].vel # VZero
        /\ world[s].vel # << ASTEROID_SPEED, 0 >>


\* the velocity a receiver gains from a lone sender inside the sender's full
\* radius: multiplier * force * dt / mass along the line from the sender
FullPush(w, r, s, d) ==
    VScaleTo(VSub(w[r].pos, w[s].pos),
             Quot(Quot(w[r].cr_mult * w[s].cs_force, MULTU) * d * MASSU, SEC * w[r].mass))

\* C18: the timer of a receiver with ChargeDisable is decremented by dt once
\* per tick, by the charge pass; in a tick in which the decremented timer is
\* still > 0 the receiver gains no charge force; from the first tick in which
\* it is <= 0 the receiver gains the charge forces (a projectile is spawned
\* with a timer of 0.2 s)
C18_ChargeDisable ==
    [][ /\ (pc = "apply_physics") =>
              \A r \in { e \in Receivers(world) : "ChargeDisable" \in world[e].comps } :
                  LET gain == VSub(world'[r].vel, BeforeCharges(world, r, input.dt))
                      left == world[r].cd_timer - input.dt
                      near == { s \in Senders(world) \ { r } :
                                  /\ VLenSq(VSub(world[r].pos, world[s].pos)) > 0
                                  /\ VLen(VSub(world[r].pos, world[s].pos)) <= world[s].cs_full }
                  IN  /\ world'[r].cd_timer = left
                      /\ left > 0 => gain = VZero
                      /\ \A s \in near :
                            (left <= 0 /\ Senders(world) \ { r } = { s }) =>
                                (gain = FullPush(world, r, s, input.dt) /\ gain # VZero)
        /\ (pc # "apply_physics") =>
              \A r \in DOMAIN world \cap DOMAIN world' : world'[r].cd_timer = world[r].cd_timer
      ]_vars

\* C18 witness: the charge pass has run on a projectile inside the full
\* radius of the player whose timer is still above 0 after the decrement,
\* and has left its velocity alone
C18_Witness ==
    /\ pc = "apply_motion"
    /\ \E r \in Receivers(world) :
        /\ "ChargeDisable" \in world[r].comps
        /\ world[r].cd_timer > 0
        /\ world[r].vel = << 0, -ASTEROID_CHARGED_PROJ_SPEED >>
        /\ LET away == VSub(world[r].pos, world[PlayerId(world)].pos)
           IN  VLenSq(away) > 0 /\ VLen(away) <= world[PlayerId(world)].cs_full


\* ------------------------------------------------------------------------
\* C19, C20: the boundary wrap
\* ------------------------------------------------------------------------
\* the entities the wrap handles
WrappedOnes(w) == Query(w, { "Position", "Wrapped" })

\* C19 as stated: a Wrapped entity whose x is exactly the width of the
\* playfield is wrapped to x = 0, and one whose y is exactly the height to y = 0
C19_EdgeIsWrapped ==
    [][ (pc = "ensure_wrapping") =>
            \A e \in WrappedOnes(world) :
                /\ world[e].pos[1] = screen_width => world'[e].pos[1] = 0
                /\ world[e].pos[2] = screen_height => world'[e].pos[2] = 0
      ]_vars

\* C19 amended: a Wrapped entity whose x is exactly the width of the
\* playfield stays at x = width, and one whose y is exactly the height stays
\* at y = height; only a coordinate strictly greater than the bound is
\* wrapped to 0
C19_EdgeStays ==
    [][ (pc = "ensure_wrapping") =>
            \A e \in WrappedOnes(world) :
                /\ world[e].pos[1] = screen_width => world'[e].pos[1] = screen_width
                /\ world[e].pos[2] = screen_height => world'[e].pos[2] = screen_height
                /\ world[e].pos[1] > screen_width => world'[e].pos[1] = 0
                /\ world[e].pos[2] > screen_height => world'[e].pos[2] = 0
      ]_vars

\* C19 witness: the wrap is about to run on a player who stands exactly on
\* the right edge and exactly on the bottom edge
C19_Witness ==
    /\ pc = "ensure_wrapping"
    /\ world[PlayerId(world)].pos = << screen_width, screen_height >>

\* C20: the wrap is a hard reset and idempotent: a coordinate strictly inside
\* the playfield is unchanged, one beyond the upper bound becomes exactly 0,
\* one below 0 becomes exactly the bound; after the pass 0 <= x <= width and
\* 0 <= y <= height; a second run of the pass changes nothing
C20_WrapIsHardReset ==
    [][ (pc = "ensure_wrapping") =>
            /\ \A e \in WrappedOnes(world) :
                  LET x == world[e].pos[1]
                      y == world[e].pos[2]
                      x2 == world'[e].pos[1]
                      y2 == world'[e].pos[2]
                  IN  /\ (0 < x /\ x < screen_width) => x2 = x
                      /\ (0 < y /\ y < screen_height) => y2 = y
                      /\ x > screen_width => x2 = 0
                      /\ y > screen_height => y2 = 0
                      /\ x < 0 => x2 = screen_width
                      /\ y < 0 => y2 = screen_height
                      /\ 0 <= x2 /\ x2 <= screen_width
                      /\ 0 <= y2 /\ y2 <= screen_height
            /\ ensure_wrapping_world(world') = world'
      ]_vars

\* C20 witness: the wrap is about to run on a player who is beyond the right
\* edge and above the top edge
C20_Witness ==
    /\ pc = "ensure_wrapping"
    /\ world[PlayerId(world)].pos[1] > screen_width
    /\ world[PlayerId(world)].pos[2] < 0


\* ------------------------------------------------------------------------
\* C21: delete-on-exit
\* ------------------------------------------------------------------------
\* a position beyond a bound of the playfield by more than the margin of 100
\* units on at least one axis
BeyondMargin(pos) ==
    \/ pos[1] > screen_width + 100
    \/ pos[1] < -100
    \/ pos[2] > screen_height + 100
    \/ pos[2] < -100

\* C21: the boundary pass records a despawn of a DeleteOnWarp entity if and
\* only if its position lies beyond a bound of the playfield by more than the
\* margin of 100 units on at least one axis; an entity outside the bounds
\* but within the margin is kept; the entity is not removed during the
\* boundary pass nor by any later pass, but at the flush, which keeps every
\* DeleteOnWarp entity no pass has asked to despawn
C21_DeleteOnExit ==
    [][ /\ (pc = "ensure_wrapping") =>
              \A e \in Query(world, { "Position", "DeleteOnWarp" }) :
                  BeyondMargin(world[e].pos)
                      <=> \E k \in (Len(cmd) + 1)..Len(cmd') : cmd'[k] = CmdDespawn(e)
        /\ (pc \in InTick /\ pc # "run_on") => DOMAIN world' = DOMAIN world
        /\ (pc = "run_on") =>
              \A e \in Query(world, { "Position", "DeleteOnWarp" }) :
                  /\ BeyondMargin(world[e].pos) => e \notin DOMAIN world'
                  /\ (\A k \in 1..Len(cmd) : cmd[k] # CmdDespawn(e)) =>
                        (e \in DOMAIN world' /\ ~BeyondMargin(world[e].pos))
      ]_vars

\* C21 witness: the flush has removed the asteroid of a world in which it
\* was beyond the margin
C21_Witness ==
    /\ pc = "game_update_return"
    /\ Query(world, { "DeleteOnWarp" }) = { }


\* ------------------------------------------------------------------------
\* C22: failed lookups
\* ------------------------------------------------------------------------
\* the lookup of an event fails for a resolver that needs the components
\* who_needs of the victim and by_needs of the attacker
LookupFails(w, ev, who_needs, by_needs) ==
    \/ ev.who \notin DOMAIN w
    \/ ev.by \notin DOMAIN w
    \/ ~(who_needs \subseteq w[ev.who].comps)
    \/ ~(by_needs \subseteq w[ev.by].comps)

\* the bus without the events whose lookup fails
Found(w, evs, who_needs, by_needs) ==
    SelectSeq(evs, LAMBDA ev : ~LookupFails(w, ev, who_needs, by_needs))

\* C22: a HitEvent whose attacker or victim no longer exists, or lacks the
\* component a resolver needs, is skipped by that resolver: knockback,
\* player damage, enemy damage and xp absorption do what they do on the bus
\* without such events, so the remaining events are still processed, and
\* on a bus of such events only they take no hp, give no xp, push nobody
\* and record no despawn; the tick goes on to the next system
C22_FailedLookupIsSkipped ==
    [][ /\ (pc = "apply_knockback") =>
              LET found == Found(world, events, { "PhysicsMotion", "Position" },
                                 { "KnockbackDealer", "Position" })
              IN  /\ world' = apply_knockback(world, found)
                  /\ found = << >> => world' = world
                  /\ pc' = "player_health"
        /\ (pc = "player_health") =>
              LET found == Found(world, events, { "Player", "Health" }, { "DamageDealer" })
                  quiet == player_health(world, player, << >>, input.dt)
                  heard == player_health(world, player, found, input.dt)
              IN  /\ world'[PlayerId(world)].hp = heard.hp
                  /\ player'.invul_timer = heard.invul_timer
                  /\ found = << >> =>
                        /\ world'[PlayerId(world)].hp = quiet.hp
                        /\ player'.invul_timer = quiet.invul_timer
                  /\ pc' = "enemy_health"
        /\ (pc = "enemy_health") =>
              LET found == Found(world, events, { "Enemy", "Health" }, { "DamageDealer" })
                  heard == enemy_health([ w |-> world, cmds |-> cmd ], found)
              IN  /\ world' = heard.w
                  /\ cmd' = heard.cmds
                  /\ found = << >> => (world' = world /\ cmd' = cmd)
                  /\ pc' = "on_hurt"
        /\ (pc = "xp_absorbtion") =>
              LET found == Found(world, events, { "Player" }, { "XpOrb" })
                  heard == xp_absorbtion(world, PlayerId(world),
                                         [ xp |-> player.xp, cmds |-> cmd ], found)
              IN  /\ player'.xp = heard.xp
                  /\ cmd' = heard.cmds
                  /\ found = << >> => (player' = player /\ cmd' = cmd)
                  /\ pc' = "supercharged_asteroid_death"
      ]_vars

\* C22 witness: xp absorption has run on a bus whose first event names an
\* attacker that is gone and whose second event is the orb touching the
\* player, and has absorbed the orb
C22_Witness ==
    /\ pc = "supercharged_asteroid_death"
    /\ Len(events) = 2
    /\ events[1].by \notin DOMAIN world
    /\ events[1].who = PlayerId(world)
    /\ events[2].who = PlayerId(world)
    /\ Has(world, events[2].by, "XpOrb")
    /\ player.xp > 0
    /\ \E k \in 1..Len(cmd) : cmd[k] = CmdDespawn(events[2].by)


\* ------------------------------------------------------------------------
\* C23: the knockback impulse
\* ------------------------------------------------------------------------
\* the velocity entity e gains in the step
Gain(e) == VSub(world'[e].vel, world[e].vel)

\* the events of the bus that push entity e
Pushes(e) == SelectSeq(events, LAMBDA ev : ev.who = e /\ knockback_applies(world, ev))

\* C23 as stated: one knockback application changes the victim's velocity
\* by a vector of magnitude exactly dealer.force / victim.mass, whatever the
\* frame's dt
C23_ImpulseMagnitude ==
    [][ (pc = "apply_knockback") =>
            \A e \in DOMAIN world :
                Len(Pushes(e)) = 1 =>
                    VLenSq(Gain(e)) * world[e].mass * world[e].mass
                        = (world[Pushes(e)[1].by].kb * MASSU) * (world[Pushes(e)[1].by].kb * MASSU)
      ]_vars

\* C23 amended: one knockback application of a dealer that is not at the
\* victim's position changes the victim's velocity by a vector of magnitude
\* exactly dealer.force / victim.mass (500 and 10 give 50) pointing away from
\* the dealer, whatever the frame's dt; n applications of the dealer give n
\* times that; a dealer at exactly the victim's position leaves the velocity
\* as it was
C23_ImpulseAwayFromDealer ==
    [][ (pc = "apply_knockback") =>
            \A e \in DOMAIN world :
                Pushes(e) # << >> =>
                    LET n == Len(Pushes(e))
                        dealer == world[Pushes(e)[1].by]
                        away == VSub(world[e].pos, dealer.pos)
                    IN  /\ away = VZero => Gain(e) = VZero
                        /\ away # VZero =>
                              /\ VLenSq(Gain(e)) * world[e].mass * world[e].mass
                                    = n * n * (dealer.kb * MASSU) * (dealer.kb * MASSU)
                              /\ VDot(Gain(e), away) > 0
                        /\ (away # VZero /\ dealer.kb = 500 /\ world[e].mass = 10 * MASSU
                              /\ n = 1) => VLenSq(Gain(e)) = 50 * 50
      ]_vars

\* C23 witness: an asteroid of force 500 next to the player of mass 10 has
\* pushed the player once in a frame of half a second, by 50
C23_Witness ==
    /\ pc = "player_health"
    /\ input.dt = DT_STEP
    /\ Len(events) = 1
    /\ world[events[1].by].kb = 500
    /\ world[events[1].who].mass = 10 * MASSU
    /\ world[events[1].by].pos # world[events[1].who].pos
    /\ VLenSq(world[events[1].who].vel) = 50 * 50


\* ------------------------------------------------------------------------
\* C24: passive regeneration
\* ------------------------------------------------------------------------
\* the damage the hits of the bus take from the player in this tick
DamageTaken ==
    LET pid == PlayerId(world)
        hits == SelectSeq(events, LAMBDA ev : /\ ev.who = pid /\ ev.can_hurt
                                              /\ "DamageDealer" \in world[ev.by].comps)
    IN  SumSeq([ i \in 1..Len(hits) |-> world[hits[i].by].dmg ])

\* C24: passive regeneration is gated by the invulnerability timer: in a
\* tick where invul_timer is still above 0 after its decrement by dt the
\* player's hp is not increased; when it is at or below 0 the hp is first
\* increased by PLAYER_BASE_HP_REGEN * dt, capped at max_hp, and the hits
\* are taken from the regenerated hp
C24_RegenGatedByInvul ==
    [][ (pc = "player_health") =>
          LET pid == PlayerId(world)
              regen == (PLAYER_BASE_HP_REGEN * input.dt) \div SEC
              healed == Min(world[pid].hp + regen, world[pid].max_hp)
          IN  /\ player.invul_timer - input.dt > 0 => world'[pid].hp = world[pid].hp
              /\ player.invul_timer - input.dt <= 0 =>
                    /\ world'[pid].hp = healed - DamageTaken
                    /\ DamageTaken = 0 => world'[pid].hp >= world[pid].hp
      ]_vars

\* C24 witness: a player below max_hp whose timer has run out has
\* regenerated in a tick without hits
C24_Witness ==
    /\ pc = "enemy_health"
    /\ player.invul_timer <= 0
    /\ \A k \in 1..Len(events) : events[k].who # PlayerId(world)
    /\ world[PlayerId(world)].hp = ASTEROID_DMG + (PLAYER_BASE_HP_REGEN * input.dt) \div SEC
    /\ world[PlayerId(world)].hp < world[PlayerId(world)].max_hp


\* ------------------------------------------------------------------------
\* C25: the hp bound
\* ------------------------------------------------------------------------
\* C25: in every state of the game every entity with Health has
\* hp <= max_hp: the player and the enemies start at hp == max_hp, heal
\* clamps at max_hp and every other write lowers the hp
C25_HpNeverAboveMax ==
    \A e \in DOMAIN world : Has(world, e, "Health") => world[e].hp <= world[e].max_hp

\* C25 witness: the regeneration has run on a player at max_hp, which is
\* still at max_hp, next to an enemy with Health
C25_Witness ==
    /\ pc = "enemy_health"
    /\ player.invul_timer <= 0
    /\ world[PlayerId(world)].hp = world[PlayerId(world)].max_hp
    /\ \E e \in DOMAIN world : Has(world, e, "Health") /\ Has(world, e, "Enemy")


\* ------------------------------------------------------------------------
\* C26: positive masses
\* ------------------------------------------------------------------------
\* the entities a flush of the commands recorded so far will create
Requested == { cmd[k].ent : k \in { i \in 1..Len(cmd) : cmd[i].op = "spawn" } }

\* C26: in every state of the game every entity with PhysicsMotion, alive
\* or requested, has a mass above 0: the player, the asteroids, the mines,
\* the projectiles and every xp orb of xp_bursts, whose mass is a quarter of
\* its amount of at least 1; the mass of a follower is the constant 4
C26_MassIsPositive ==
    /\ \A e \in DOMAIN world : Has(world, e, "PhysicsMotion") => world[e].mass > 0
    /\ \A ent \in Requested : "PhysicsMotion" \in ent.comps => ent.mass > 0
    /\ \A ent \in Requested : "XpOrb" \in ent.comps => ent.xp >= 1 /\ 4 * ent.mass = MASSU * ent.xp
    /\ FOLLOWER_MASS > 0

\* C26 witness: xp_bursts has requested an orb of less than 4 xp, whose mass
\* is below 1
C26_Witness ==
    /\ pc = "enemy_spawning"
    /\ \E ent \in Requested : "XpOrb" \in ent.comps /\ ent.xp < 4 /\ ent.mass < MASSU


\* ------------------------------------------------------------------------
\* C27: the one player
\* ------------------------------------------------------------------------
\* the entities with the Player component
Players == Query(world, { "Player" })

\* C27: while the game is Running or Paused exactly one Player entity
\* exists, no despawn of it is recorded in the command buffer and no spawn
\* of a second one is, so that the first-row lookups of the player find it
C27_ExactlyOnePlayer ==
    state \in { "Running", "Paused" } =>
        /\ Cardinality(Players) = 1
        /\ \A k \in 1..Len(cmd) :
              /\ cmd[k].op = "despawn" => cmd[k].id \notin Players
              /\ cmd[k].op = "spawn" => "Player" \notin cmd[k].ent.comps

\* C27 witness: at the flush of a tick in which the player was hit, despawns
\* are recorded and the player is none of them
C27_Witness ==
    /\ state = "Running"
    /\ pc = "run_on"
    /\ Cardinality(Players) = 1
    /\ \E k \in 1..Len(cmd) : cmd[k].op = "despawn"
    /\ \E k \in 1..Len(events) : events[k].who \in Players /\ events[k].can_hurt


\* ------------------------------------------------------------------------
\* C28: the charge force over the distance
\* ------------------------------------------------------------------------
\* the absolute value
Abs(x) == IF x < 0 THEN -x ELSE x

\* the falloff formula of the claim: force * (no_radius - d) / (no_radius - full_radius)
Falloff(b, d) == Quot(b.cs_force * (b.cs_no - d), b.cs_no - b.cs_full)

\* the piecewise function of the claim
Felt(b, d) ==
    IF d <= b.cs_full THEN b.cs_force
    ELSE IF d < b.cs_no THEN Falloff(b, d)
    ELSE 0

\* the distances around and inside the field of sender b
FieldDistances(b) == 1..(b.cs_no + 2)

\* C28: the magnitude of the charge force felt from a sender S by a
\* receiver the charge pass does not skip, at distance d, is S.force for
\* d <= full_radius, S.force * (no_radius - d) / (no_radius - full_radius)
\* for full_radius < d < no_radius and nothing for d >= no_radius; the falloff
\* formula is S.force at d == full_radius and 0 at d == no_radius, the
\* magnitude never exceeds |S.force|, and a px of distance changes it by no
\* more than the slope of the falloff (continuity on the px grid)
C28_ChargeForceContinuity ==
    [][ (pc = "apply_physics") =>
            /\ \A s \in Senders(world) :
                  LET b == world[s]
                      slope == Abs(b.cs_force) \div (b.cs_no - b.cs_full) + 1
                  IN  /\ b.cs_full < b.cs_no
                      /\ Falloff(b, b.cs_full) = b.cs_force
                      /\ Falloff(b, b.cs_no) = 0
                      /\ \A d \in FieldDistances(b) :
                            /\ charge_force(b, d) = Felt(b, d)
                            /\ Abs(Felt(b, d)) <= Abs(b.cs_force)
                            /\ Abs(Felt(b, d + 1) - Felt(b, d)) <= slope
            /\ \A r \in Receivers(world) :
                  \A s \in ActingOn(world, r, input.dt) :
                      LET away == VSub(world[r].pos, world[s].pos)
                          felt == Felt(world[s], VLen(away))
                          push == Quot(Quot(world[r].cr_mult * felt, MULTU) * input.dt * MASSU,
                                       SEC * world[r].mass)
                      IN  ActingOn(world, r, input.dt) = { s } =>
                              VSub(world'[r].vel, BeforeCharges(world, r, input.dt))
                                  = VScaleTo(away, push)
      ]_vars

\* C28 witness: the charge pass has pushed a projectile between the full
\* radius and the outer radius of the player by less than the full force
\* would have
C28_Witness ==
    /\ pc = "apply_motion"
    /\ \E p \in Query(world, { "Projectile" }) :
          LET pl == world[PlayerId(world)]
              away == VSub(world[p].pos, pl.pos)
              full == Quot(Quot(world[p].cr_mult * pl.cs_force, MULTU) * input.dt * MASSU,
                           SEC * world[p].mass)
          IN  /\ VLen(away) > pl.cs_full /\ VLen(away) < pl.cs_no
              /\ world[p].vel[1] # 0
              /\ Abs(world[p].vel[1]) < Abs(full)


\* ------------------------------------------------------------------------
\* C29: damping convergence
\* ------------------------------------------------------------------------
\* C29 as stated: a body with PhysicsMotion and PhysicsDamping with
\* 0 < mul_factor < 1 and flat_factor >= 0 that receives no other force is
\* brought to velocity exactly zero by finitely many of the repeated ticks
\* with dt > 0: if apply_physics is called again and again, the velocity is
\* zero at some point
C29_DampingConverges ==
    ([]<>(pc = "apply_motion")) => <>(world[DampedId].vel = VZero)

\* the rest of C29: a velocity of zero stays zero
C29_ZeroStaysZero ==
    [][ (pc = "apply_physics") =>
            \A e \in Query(world, { "PhysicsMotion", "PhysicsDamping" }) :
                world[e].vel = VZero => world'[e].vel = VZero
      ]_vars

\* what the zero test does give: a velocity whose squared length after the
\* multiplication is at most flat_factor is zero after the tick
C29_SlowBodiesStop ==
    [][ (pc = "apply_physics") =>
            \A e \in Query(world, { "PhysicsMotion", "PhysicsDamping" }) :
                LET v1 == VMulDiv(world[e].vel, Powf(world[e].damp_mul, input.dt), 1000)
                IN  VLenSq(v1) <= world[e].damp_flat => world'[e].vel = VZero
      ]_vars


\* ------------------------------------------------------------------------
\* C30: one xp burst
\* ------------------------------------------------------------------------
\* the largest BurstXpOnDeath amount the burst is computed for
MaxBurstXp == 45

\* the xp amounts of the orbs a sequence of commands requests
OrbAmounts(cmds) ==
    LET orbs == SelectSeq(cmds, LAMBDA c : c.op = "spawn" /\ "XpOrb" \in c.ent.comps)
    IN  [ i \in 1..Len(orbs) |-> orbs[i].ent.xp ]

\* the dead entities xp_bursts processes
DeadBursters ==
    { e \in Query(world, { "BurstXpOnDeath", "Position", "Health" }) : world[e].hp <= 0 }

\* C30: when xp_bursts processes a dead entity with BurstXpOnDeath { amount }
\* both loops end and the amounts of the orbs requested at that entity's
\* position sum to exactly the amount (of the dead entities at that
\* position), each orb holding between 1 and 10 xp; the same for every amount
\* from 0 to MaxBurstXp with the random numbers of the state
C30_BurstConservesXp ==
    [][ (pc = "xp_bursts") =>
          LET new == SubSeq(cmd', Len(cmd) + 1, Len(cmd'))
          IN  /\ \A k \in 1..Len(new) : new[k].op = "spawn" /\ "XpOrb" \in new[k].ent.comps
              /\ \A k \in 1..Len(new) : new[k].ent.xp \in 1..10
              /\ DeadBursters = { } => new = << >>
              /\ \A e \in DeadBursters :
                    LET here == SortedSeq({ d \in DeadBursters : world[d].pos = world[e].pos })
                        at == SelectSeq(new, LAMBDA c : c.ent.pos = world[e].pos)
                    IN  SumSeq(OrbAmounts(at)) = SumSeq([ i \in 1..Len(here) |-> world[here[i]].xp ])
              /\ \A amount \in 0..MaxBurstXp :
                    LET b == xp_burst(VZero, amount, rng)
                    IN  /\ SumSeq(OrbAmounts(b.cmds)) = amount
                        /\ Len(OrbAmounts(b.cmds)) = Len(b.cmds)
                        /\ \A k \in 1..Len(b.cmds) : b.cmds[k].ent.xp \in 1..10
                        /\ b.rest = 0
      ]_vars

\* C30 witness: xp_bursts has requested a large orb of 10 xp and smaller
\* ones for a dead entity
C30_Witness ==
    /\ pc = "enemy_spawning"
    /\ \E e \in DeadBursters :
          /\ \E ent \in Requested : "XpOrb" \in ent.comps /\ ent.pos = world[e].pos /\ ent.xp = 10
          /\ \E ent \in Requested : "XpOrb" \in ent.comps /\ ent.pos = world[e].pos /\ ent.xp < 10


\* ------------------------------------------------------------------------
\* C31: the particle queue
\* ------------------------------------------------------------------------
\* C31 as stated: after any sequence of add_particle, burst_particles,
\* update_particles and clear_particles calls on an FxManager created with
\* max_particles = n at most n particles are held
C31_QueueIsBounded == Len(fx.particles) <= fx.max_particles

\* where the bound does hold: a manager created with room for a particle
C31_BoundedWithRoom == fx.max_particles >= 1 => Len(fx.particles) <= fx.max_particles

\* the rest of C31: the queue holds the particles from the newest at the
\* front to the oldest at the back, and a particle added to a full queue of a
\* manager with room is kept at the expense of the oldest one, the others
\* staying as they were
C31_OldestIsRemoved ==
    [][ (fx'.added = fx.added + 1) =>
            LET old == fx.particles
                new == fx'.particles
            IN  /\ \A i \in 1..(Len(old) - 1) : old[i].serial > old[i + 1].serial
                /\ new[1].serial = fx.added
                /\ (fx.max_particles >= 1 /\ Len(old) = fx.max_particles) =>
                      /\ Len(new) = Len(old)
                      /\ \A i \in 2..Len(new) : new[i] = old[i - 1]
                      /\ \A i \in 1..(Len(old) - 1) : old[Len(old)].serial < old[i].serial
                /\ Len(old) < fx.max_particles => new = << new[1] >> \o old
      ]_vars

\* ------------------------------------------------------------------------
\* C32: projectiles and the hits they land
\* ------------------------------------------------------------------------
\* the hit events of the bus in which e is the attacker
HitsBy(e) == { k \in 1..Len(events) : events[k].by = e }
LandsHit(e) == \E k \in HitsBy(e) : events[k].can_hurt

\* C32: on_hurt records the despawn of a projectile exactly when the bus of
\* the tick holds a HitEvent with by = the projectile and can_hurt true, and
\* records nothing else
C32_DespawnedIffHitLands ==
    [][ (pc = "on_hurt") =>
            /\ Len(cmd') >= Len(cmd) /\ SubSeq(cmd', 1, Len(cmd)) = cmd
            /\ LET rec == SubSeq(cmd', Len(cmd) + 1, Len(cmd'))
               IN  /\ \A e \in Query(world, { "Projectile" }) :
                          LandsHit(e) <=> (\E i \in 1..Len(rec) : rec[i] = CmdDespawn(e))
                   /\ \A i \in 1..Len(rec) :
                          /\ rec[i].op = "despawn"
                          /\ Has(world, rec[i].id, "Projectile")
                          /\ \A j \in 1..Len(rec) : rec[j] = rec[i] => j = i
      ]_vars

\* C32, the flush: a projectile whose hit landed is gone after cmd.run_on of
\* the same tick, and a projectile that only overlapped entities it cannot
\* hurt is still in the world
C32_RemovedAtFlush ==
    [][ (pc = "run_on") =>
            \A e \in Query(world, { "Projectile" }) :
                /\ LandsHit(e) => e \notin DOMAIN world'
                /\ (HitsBy(e) # { } /\ ~LandsHit(e)) => e \in DOMAIN world'
      ]_vars

\* C32, one tick only: the events of the bus name entities of the world of
\* the tick, so a projectile removed at a flush is in no later event
C32_EventsOfLiveEntities ==
    \A k \in 1..Len(events) :
        pc \in { "apply_knockback", "player_health", "enemy_health", "on_hurt",
                 "xp_absorbtion", "supercharged_asteroid_death", "big_asteroid_death",
                 "mine_death", "xp_bursts", "enemy_spawning", "run_on" } =>
            events[k].by \in DOMAIN world /\ events[k].who \in DOMAIN world

\* C32: a projectile is despawned by on_hurt iff the bus of the tick holds a
\* hurting HitEvent it is the attacker of, it is then removed at the flush of
\* the tick while a projectile that only overlaps its own team stays, and the
\* events of a tick are about entities that are alive in it
C32_ProjectileRemoval ==
    /\ C32_DespawnedIffHitLands
    /\ C32_RemovedAtFlush
    /\ []C32_EventsOfLiveEntities

\* a flush with a projectile that hit an opposing entity
C32_WitnessHit ==
    /\ pc = "run_on"
    /\ \E e \in Query(world, { "Projectile" }) :
          LandsHit(e) /\ \E i \in 1..Len(cmd) : cmd[i] = CmdDespawn(e)

\* a flush with a projectile that only overlaps entities of its own team
C32_WitnessOwnTeam ==
    /\ pc = "run_on"
    /\ \E e \in Query(world, { "Projectile" }) : HitsBy(e) # { } /\ ~LandsHit(e)

\* a flush with one projectile that hit an opposing entity and one that
\* only overlaps entities of its own team
C32_Witness == C32_WitnessHit /\ C32_WitnessOwnTeam

\* ------------------------------------------------------------------------
\* C33: the salvos of a tripleshot wave
\* ------------------------------------------------------------------------
\* C33: from the tick the spawner enters Spawning until it returns to
\* Waiting exactly three salvos are recorded, whatever the frame times:
\* the wave ends with the third salvo shot (data = 3)
C33_ThreeSalvosPerWave ==
    [][ (pc = "enemy_spawning" /\ spawner.state = "Spawning"
                               /\ spawner'.state = "Waiting") =>
            spawner'.data = 3
      ]_vars

\* what does hold of the salvos: a call of enemy_spawning shoots at most one
\* salvo, a salvo is three charged asteroids and is counted in data, and no
\* wave shoots more than three
C33_SalvoIsThreeAsteroids ==
    [][ (pc = "enemy_spawning") =>
            LET rec == SubSeq(cmd', Len(cmd) + 1, Len(cmd'))
                shot == IF spawner.state = "Spawning" /\ spawner.timer # NAN
                        THEN spawner'.data - spawner.data ELSE 0
            IN  /\ shot \in { 0, 1 }
                /\ spawner'.data <= 3
                /\ Len(rec) = 3 * shot
                /\ \A i \in 1..Len(rec) :
                      rec[i].op = "spawn" /\ "Asteroid" \in rec[i].ent.comps
      ]_vars

\* wave_counter grows by one in the tick that starts a wave and in no other
C33_WaveCountedOnce ==
    [][ (pc = "enemy_spawning") =>
            spawner'.wave_counter =
                spawner.wave_counter +
                (IF spawner.state = "Spawning" /\ spawner.timer = NAN THEN 1 ELSE 0)
      ]_vars

\* ------------------------------------------------------------------------
\* C34: death effects
\* ------------------------------------------------------------------------
\* the entities with an effect on death whose hp is spent
DeadWithEffects(w) ==
    { e \in Query(w, { "Health" }) :
        w[e].hp <= 0 /\ ({ "Mine", "BurstXpOnDeath" } \cap w[e].comps) # { } }

\* C34, the reason given: no entity with hp <= 0 survives the flush of the
\* tick in which its death effects ran
C34_DeadGoneAfterFlush ==
    [][ (pc = "run_on") => \A e \in DeadWithEffects(world) : e \notin DOMAIN world' ]_vars

\* C34, the mine: a mine that mine_death finds dead was not dead in the tick
\* before, that is, its timer had not run out before this tick's mine_ai
C34_MineExplodesOnce ==
    [][ (pc = "mine_death") =>
            \A e \in Query(world, { "Health", "Position", "Mine" }) :
                world[e].hp <= 0 => (frame = 1 \/ world[e].mine_timer + input.dt > 0)
      ]_vars

\* C34 as stated: death effects fire in exactly one tick per entity
C34_DeathEffectsFireOnce == C34_DeadGoneAfterFlush /\ C34_MineExplodesOnce

\* the part of C34 that holds: an entity that dies of a hit is gone after the
\* flush of that tick
C34_HitVictimsGoneAfterFlush ==
    [][ (pc = "run_on") =>
            \A e \in DeadWithEffects(world) :
                (\E k \in 1..Len(events) : events[k].who = e /\ Has(world, events[k].by, "DamageDealer"))
                    => e \notin DOMAIN world'
      ]_vars

\* ------------------------------------------------------------------------
\* C35: the end of a projectile
\* ------------------------------------------------------------------------
\* the projectiles that have left the playfield by more than the margin of
\* delete-on-exit
ProjectilesOutside(w) ==
    { e \in Query(w, { "Projectile", "Position" }) : warp_despawns(e, w[e].pos) # << >> }

\* C35: a projectile that does not hit anything it can hurt is removed by
\* leaving the playfield: once it is outside by more than the delete-on-exit
\* margin it is gone after the flush of the tick
C35_RemovedOutsidePlayfield ==
    [][ (pc = "run_on") => \A e \in ProjectilesOutside(world) : e \notin DOMAIN world' ]_vars

\* what the code does: in a Running tick a projectile leaves the world only
\* at the flush of a tick in which it landed a hit
C35_RemovedOnlyByHit ==
    [][ (state = "Running" /\ pc # "loop") =>
            \A e \in Query(world, { "Projectile" }) :
                e \notin DOMAIN world' => (pc = "run_on" /\ LandsHit(e))
      ]_vars

\* ------------------------------------------------------------------------
\* C36: supercharged asteroids and their outlines
\* ------------------------------------------------------------------------
\* the outline entities of w: what the closure of create_supercharged_asteroid
\* inserts on the reserved id
Outlines(w) == { e \in DOMAIN w : w[e].comps = outline_bundle(VZero).comps }

\* C36, first half: after every flush the outline of each live ChargedAsteroid
\* exists and is no ChargedAsteroid itself, so the unwrap of
\* supercharged_asteroid_visual does not fail
C36_OutlineOfLiveAsteroid ==
    pc = "game_update_return" =>
        \A e \in Query(world, { "ChargedAsteroid" }) : world[e].outline \in Outlines(world)

\* C36, second half: after every flush every outline is referenced by a live
\* ChargedAsteroid
C36_OutlineHasAsteroid ==
    pc = "game_update_return" =>
        \A o \in Outlines(world) :
            \E e \in Query(world, { "ChargedAsteroid" }) : world[e].outline = o

\* C36 as stated: a supercharged asteroid and its outline live and die
\* together, whether the asteroid is removed by a hit or by delete-on-exit
C36_LiveAndDieTogether == C36_OutlineOfLiveAsteroid /\ C36_OutlineHasAsteroid

\* the case of C36 that holds: an asteroid removed by a hit takes its outline
\* with it
C36_HitRemovesBoth ==
    [][ (pc = "run_on") =>
            \A e \in Query(world, { "ChargedAsteroid", "Health" }) :
                (world[e].hp <= 0 /\ world[e].outline \in DOMAIN world) =>
                    (e \notin DOMAIN world' /\ world[e].outline \notin DOMAIN world')
      ]_vars

\* a flush at which an asteroid dead of a hit and its outline are removed
C36_WitnessHit ==
    /\ pc = "run_on"
    /\ \E e \in Query(world, { "ChargedAsteroid", "Health" }) :
          world[e].hp <= 0 /\ world[e].outline \in DOMAIN world

\* ------------------------------------------------------------------------
\* C37: xp orbs
\* ------------------------------------------------------------------------
\* the xp orbs whose HurtBox overlaps the HitBox of the player
OrbsOnPlayer(w) ==
    { o \in Query(w, { "XpOrb", "HurtBox", "Position", "Team" }) :
        touching(w[PlayerId(w)], w[o]) }

\* the xp the orbs of the set hold
OrbXp(w, orbs) ==
    LET s == SortedSeq(orbs) IN SumSeq([ i \in 1..Len(s) |-> w[s[i]].xp ])

\* C37: player.xp grows by the amount of every orb that overlaps the player
\* in the tick, whatever can_hurt and the invulnerability timer are, and by
\* nothing else; each such orb has one despawn recorded and is gone after the
\* flush of the tick; player.xp never decreases
C37_OrbCreditedOnce ==
    [][ /\ (pc = "xp_absorbtion") =>
              LET orbs == OrbsOnPlayer(world)
                  rec == SubSeq(cmd', Len(cmd) + 1, Len(cmd'))
              IN  /\ player'.xp = player.xp + OrbXp(world, orbs)
                  /\ Len(rec) = Cardinality(orbs)
                  /\ \A o \in orbs : \E i \in 1..Len(rec) : rec[i] = CmdDespawn(o)
        /\ (pc = "run_on") => \A o \in OrbsOnPlayer(world) : o \notin DOMAIN world'
        /\ (pc # "xp_absorbtion" /\ state = "Running" /\ state' = "Running")
              => player'.xp = player.xp
      ]_vars

\* a flush after two orbs were absorbed by a player whose invulnerability
\* timer is running
C37_Witness ==
    /\ pc = "run_on"
    /\ Cardinality(OrbsOnPlayer(world)) = 2
    /\ player.invul_timer > 0
    /\ player.xp = 7 + OrbXp(world, OrbsOnPlayer(world))
    /\ \A k \in 1..Len(events) : events[k].by \in OrbsOnPlayer(world) => ~events[k].can_hurt

\* ------------------------------------------------------------------------
\* C38: the transitions of GameState
\* ------------------------------------------------------------------------
\* C38: GameState changes only along MainMenu -> Running (start button, the
\* world of init_game), Running -> Paused (Escape), Paused -> Running (Escape,
\* no Pause entity left), Running -> GameOver (player hp <= 0, no Escape) and
\* GameOver -> MainMenu (Escape); each trigger does change the state, Escape
\* winning over a dead player at the end of game_update; and the simulation
\* passes run only while Running
C38_StateTransitions ==
    /\ [][ /\ state' # state =>
                \/ /\ state = "MainMenu" /\ state' = "Running"
                   /\ pc = "main_menu_update" /\ input.click
                   /\ Cardinality(Query(world', { "Player" })) = 1
                   /\ Query(world', { "Button" }) = { }
                \/ /\ state = "Running" /\ state' = "Paused"
                   /\ pc = "game_update_return" /\ input.esc
                   /\ Query(world', { "Pause" }) # { }
                \/ /\ state = "Paused" /\ state' = "Running"
                   /\ pc = "pause_update" /\ input.esc
                   /\ Query(world', { "Pause" }) = { }
                \/ /\ state = "Running" /\ state' = "GameOver"
                   /\ pc = "game_update_return" /\ ~input.esc
                   /\ world[PlayerId(world)].hp <= 0
                \/ /\ state = "GameOver" /\ state' = "MainMenu"
                   /\ pc = "game_over_update" /\ input.esc
           /\ (pc = "main_menu_update" /\ input.click) => state' = "Running"
           /\ (pc = "game_update_return" /\ input.esc) => state' = "Paused"
           /\ (pc = "game_update_return" /\ ~input.esc /\ world[PlayerId(world)].hp <= 0)
                  => state' = "GameOver"
           /\ (pc = "pause_update" /\ input.esc) => state' = "Running"
           /\ (pc = "game_over_update" /\ input.esc) => state' = "MainMenu"
         ]_vars
    /\ [](pc \in { SystemPasses[i] : i \in 1..Len(SystemPasses) } \cup { "game_update_return" }
             => state = "Running")

\* the game paused by the Escape of the tick in which the player's hp fell
\* to 0 or below
C38_Witness ==
    /\ state = "Paused"
    /\ pc = "events_clear"
    /\ world[PlayerId(world)].hp <= 0

\* the other transitions, taken
C38_WitnessResumed == state = "Running" /\ pc = "events_clear" /\ frame = 2 /\ input.esc
C38_WitnessGameOver == state = "GameOver" /\ pc = "events_clear" /\ ~input.esc
C38_WitnessMainMenu == state = "MainMenu" /\ pc = "events_clear" /\ input.esc
C38_WitnessStarted == state = "Running" /\ pc = "events_clear" /\ input.click

\* ------------------------------------------------------------------------
\* C39: the shortcut of an empty field
\* ------------------------------------------------------------------------
\* enemy_spawning takes the shortcut: the spawner waits, no enemy is left and
\* the shortcut was not taken since the last wave
ShortcutTaken ==
    /\ pc = "enemy_spawning"
    /\ spawner.state = "Waiting"
    /\ Query(world, { "Enemy" }) = { }
    /\ ~spawner.no_enemies

\* the wait left after a call of enemy_spawning
WaitLeft(sp) == IF sp.state = "Waiting" THEN sp.timer ELSE 0

\* C39: when the field is cleared the wait left afterwards is at most
\* SPAWN_NO_ENEMY_TIMER and never longer than the wait that was left before
C39_ShortcutNeverDelays ==
    [][ ShortcutTaken =>
            /\ WaitLeft(spawner') <= SPAWN_NO_ENEMY_TIMER
            /\ WaitLeft(spawner') <= spawner.timer
      ]_vars

\* what holds of the shortcut: the wait left after it is the 3 s of
\* SPAWN_NO_ENEMY_TIMER less the frame time, whatever was left before
C39_ShortcutSetsThreeSeconds ==
    [][ ShortcutTaken =>
            /\ WaitLeft(spawner') <= SPAWN_NO_ENEMY_TIMER
            /\ WaitLeft(spawner') = Max(SPAWN_NO_ENEMY_TIMER - input.dt, 0)
      ]_vars

\* the shortcut is taken at most once per wave: it sets no_enemies, and
\* no_enemies is reset only by the tick that starts a wave
C39_ShortcutOncePerWave ==
    [][ /\ ShortcutTaken => spawner'.no_enemies
        /\ (spawner.no_enemies /\ ~spawner'.no_enemies) =>
              (pc = "enemy_spawning" /\ spawner.state = "Spawning" /\ spawner.timer = NAN)
      ]_vars

====
